---- MODULE Spec2Model ----
(***************************************************************************)
(* Verification model of the feed-aggregation code of go-in-action-code:   *)
(*   - the three ArticleStore implementations (chapter09, chapter11        *)
(*     go-news, chapter11 api),                                            *)
(*   - the fan-out/fan-in collectors (chapter09 fanOutFanIn, go-news       *)
(*     SyncHandler),                                                       *)
(*   - the WorkerPool (chapter09 and go-news).                             *)
(* Each subsystem has its own specification over the shared variable       *)
(* tuple; the variables of the other subsystems stay at their initial      *)
(* value.                                                                  *)
(*                                                                         *)
(* Every method of an ArticleStore runs wholly between Lock and the        *)
(* deferred Unlock (RLock/RUnlock for the readers) of the one mutex mu, so *)
(* the interleavings of concurrent calls are the serial orders of the      *)
(* calls: each call is one action.  What escapes the lock is the slice a   *)
(* reader was handed, which is why slices are modelled with their backing  *)
(* arrays.                                                                 *)
(***************************************************************************)
EXTENDS Integers, Sequences, FiniteSets, TLC

VARIABLES
    variant,    \* which ArticleStore implementation: "ch09", "gonews", "api"
    cache,      \* ArticleStore.cache: the set of keys of the map
    sorted,     \* ArticleStore.sorted / .articles: slice header [arr, len, cap]
    heap,       \* backing arrays of the slices, by address
    result,     \* the slice header the last GetRecent returned to its caller
    last,       \* the most recent call: [op, n, outcome]
    inserted,   \* history: the Links passed to AddArticle/AddArticles so far
    \* fan-out/fan-in (chapter09 fanOutFanIn, go-news SyncHandler)
    fanImpl,    \* which implementation: "ch09", "gonews"
    urls,       \* the locators: urls / h.feedURLs
    fanPc,      \* where the calling goroutine is: "launch", "collect", "done"
    wg,         \* the sync.WaitGroup counter
    task,       \* per locator, the fetch goroutine: [pc, out]
    resultsChan,  \* results / resultsChan: [buf, closed]
    errorsChan, \* chapter09 errors: [buf, closed]
    closer,     \* the goroutine that waits and closes
    open,       \* chapter09: which of the collector's channel variables are not nil
    feeds,      \* the successful outcomes collected, in arrival order
    errs,       \* the failures collected, in arrival order
    articlesOut,  \* go-news: articles, the flattened articles collected
    response,   \* what the sync handler answered: [status, ...], status 0 before
    callerCtx,  \* the context of the handler's request: "live", "cancelled"
    \* WorkerPool (chapter09 and go-news)
    poolImpl,   \* which implementation: "ch09", "gonews"
    jobs,       \* p.jobs / wp.incomingFeeds: [buf, closed]
    results,    \* chapter09 p.results: the buffered feeds
    worker,     \* per worker goroutine: [pc, url]
    sub,        \* per caller of Submit: [pc, url, blocked, stopped]
    submitted,  \* history: the number of Submit calls made
    \* go-news App (NewApp, run, ProcessFeed, saveFeed, SubmitFeed, Close)
    feedRead,   \* a.feedRead: [buf, closed]
    errChan,    \* a.errChan: [buf, closed]
    runPc,      \* the goroutine of App.run: [pc, url]
    closePc,    \* how far App.Close has got
    sources,    \* per locator handed to SubmitFeed, how its fetch can end
    saves,      \* per job, the articles its saveFeed goroutine has still to add
    fed,        \* history: the number of locators SubmitFeed accepted
    log,        \* history: per job, how its fetch ended
    \* Calculator (chapter 8 testing example)
    calc,       \* the Calculator: [mem, result, err]
    calcRet,    \* the most recent call and what it returned: [op, name, a, b, val, err]
    seen,       \* history: what the most recent Calculate returned: [ok, val]
    expectMem,  \* history: the value of seen at the last Store that found it ok
    \* KVStore (chapter07)
    kv,         \* store.m: the map, a function from its keys to their values
    kvRet,      \* the most recent call and what it returned: [op, keys, vals, err, missing]
    \* chapter09 context and errgroup demonstrations
    ctx,        \* the context the calls share: "live", "canceled", "deadline"
    fc,         \* the calls of fetchFeedWithContext: [pc, url, fetch, out, ret, late]
    eg          \* the SimpleErrGroup and its user: [wg, err, fn, pc, ret, order]

storeVars == <<variant, cache, sorted, heap, result, last, inserted>>

fanVars == <<fanImpl, urls, fanPc, wg, task, resultsChan, errorsChan, closer,
             open, feeds, errs, articlesOut, response, callerCtx>>

poolVars == <<poolImpl, jobs, results, worker, sub, submitted>>

appVars == <<feedRead, errChan, runPc, closePc, sources, saves, fed, log>>

libVars == <<calc, calcRet, seen, expectMem, kv, kvRet, ctx, fc, eg>>

vars == <<storeVars, fanVars, poolVars, appVars, libVars>>

-----------------------------------------------------------------------------
(* Bounds *)

\* number of distinct publication times
MaxTime == 2
\* largest number of articles the store is driven to (the api store has no
\* deduplication and would grow forever); the sort below is the one
\* slices.SortFunc uses up to 12 elements
MaxLen == 3
\* longest batch passed to AddArticles
MaxBatch == 2
\* largest store in the specification with a caller that writes to its result
MaxClientLen == 2
\* longest list of locators handed to the fan-out
MaxUrls == 3
\* number of workers of the pool (NewWorkerPool's size / count argument)
NumWorkers == 2
\* capacity of the job channel, scaled down from make(chan string, 100)
QueueCap == 2
\* capacity of the chapter09 results channel, scaled down from
\* make(chan Feed, 100)
ResultsCap == 1
\* capacity of the App's feedRead channel, scaled down from
\* make(chan string, 5)
FeedCap == 2
\* capacity of the App's errChan, scaled down from make(chan error, 5)
ErrCap == 1
\* number of locators handed to SubmitFeed
MaxFeeds == 3

-----------------------------------------------------------------------------
(* Articles *)

Links == {"l1", "l2", "l3", "l4"}

\* a nil *time.Time
NilTime == 0

Times == 1..MaxTime

\* the articles the callers of store v pass in.  chapter09 Article.PubDate
\* is a time.Time value; the chapter11 Articles carry Published *time.Time,
\* which may be nil.  The go-news callers draw from five articles: A (l1,
\* newest), a second version of l1 without a date, B (l2, oldest), C (l3,
\* undated) and D (l4, as old as B); the go-news store needs the fourth Link
\* for an append that fits the capacity (1, 2, 4) of its array.
ArticlesOf(v) ==
    LET LinksOf == IF v = "gonews" THEN Links
                   ELSE IF v = "ch09" THEN {"l1", "l2", "l3"} ELSE {"l1", "l2"}
        PublishedOf(l) ==
            IF v = "ch09" THEN Times
            ELSE IF v = "api" THEN Times \cup {NilTime}
            ELSE IF l = "l1" THEN {MaxTime, NilTime}
            ELSE IF l = "l3" THEN {NilTime}
            ELSE {1}
    IN UNION {{[Link |-> l, Published |-> p] : p \in PublishedOf(l)} : l \in LinksOf}

\* the batches the callers of store v pass in
BatchesOf(v) == UNION {[1..k -> ArticlesOf(v)] : k \in 0..MaxBatch}

-----------------------------------------------------------------------------
(* Slices over a heap of backing arrays *)

\* addresses: 1 holds the store's array, 2 the array only the caller's result
\* refers to, 3 is where a new array is built before Canon renames it
Addr == 1..3

NilSlice == [arr |-> 0, len |-> 0, cap |-> 0]

\* the elements a slice header denotes
View(h, s) == IF s.arr = 0 THEN <<>> ELSE SubSeq(h[s.arr], 1, s.len)

Zeros(k) == [i \in 1..k |-> [Link |-> "", Published |-> NilTime]]

\* keeps only the arrays a live slice refers to
Release(h, live) == [a \in Addr |-> IF a \in live THEN h[a] ELSE <<>>]

FreeAddr(used) == CHOOSE a \in Addr \ used : \A b \in Addr \ used : a <= b

\* capacity append() allocates when the array is full (runtime growslice,
\* below 256 elements)
GrowCap(oldCap, newLen) == IF newLen > 2 * oldCap THEN newLen ELSE 2 * oldCap

\* mutant: growing allocates the new array without copying the old elements
AppendSlice_NoCopy(h, s, items, keep) ==
    LET n == s.len + Len(items) IN
    IF Len(items) = 0 THEN [heap |-> h, s |-> s]
    ELSE IF n <= s.cap
    THEN [heap |-> [h EXCEPT ![s.arr] =
                       [i \in 1..s.cap |->
                           IF i > s.len /\ i <= n THEN items[i - s.len] ELSE @[i]]],
          s |-> [s EXCEPT !.len = n]]
    ELSE LET c == GrowCap(s.cap, n)
             a == FreeAddr({s.arr, keep})
             h1 == [h EXCEPT ![a] = Zeros(s.len) \o items \o Zeros(c - n)]
         IN [heap |-> Release(h1, {a, keep}), s |-> [arr |-> a, len |-> n, cap |-> c]]

\* append(s, items...): in place when the capacity suffices, otherwise into
\* a new array.  keep is the address another live slice still refers to.
AppendSlice(h, s, items, keep) ==
    LET n == s.len + Len(items) IN
    IF Len(items) = 0 THEN [heap |-> h, s |-> s]
    ELSE IF n <= s.cap
    THEN [heap |-> [h EXCEPT ![s.arr] =
                       [i \in 1..s.cap |->
                           IF i > s.len /\ i <= n THEN items[i - s.len] ELSE @[i]]],
          s |-> [s EXCEPT !.len = n]]
    ELSE LET c == GrowCap(s.cap, n)
             a == FreeAddr({s.arr, keep})
             h1 == [h EXCEPT ![a] = View(h, s) \o items \o Zeros(c - n)]
         IN [heap |-> Release(h1, {a, keep}), s |-> [arr |-> a, len |-> n, cap |-> c]]

\* Addresses are not observable: rename them so that the store's array is at
\* 1 and an array only the result refers to is at 2, and release the rest.
Canon(h, s, r) ==
    LET shared == r.arr # 0 /\ r.arr = s.arr IN
    [heap |-> [a \in Addr |->
                 IF a = 1 /\ s.arr # 0 THEN h[s.arr]
                 ELSE IF a = 2 /\ r.arr # 0 /\ ~shared THEN h[r.arr]
                 ELSE <<>>],
     s |-> [s EXCEPT !.arr = IF s.arr = 0 THEN 0 ELSE 1],
     r |-> [r EXCEPT !.arr = IF r.arr = 0 THEN 0 ELSE IF shared THEN 1 ELSE 2]]

-----------------------------------------------------------------------------
(* slices.SortFunc *)

\* mutant: the comparison orders oldest first
Cmp_Ascending(v, a, b) ==
    IF a.Published < b.Published THEN -1
    ELSE IF a.Published > b.Published THEN 1 ELSE 0

\* the comparison function each store passes to slices.SortFunc
Cmp(v, a, b) ==
    IF v = "ch09"
    THEN IF a.Published > b.Published THEN -1
         ELSE IF a.Published < b.Published THEN 1 ELSE 0
    ELSE IF v = "gonews"
    THEN IF a.Published = NilTime \/ b.Published = NilTime THEN 0
         ELSE IF b.Published < a.Published THEN -1
         ELSE IF b.Published > a.Published THEN 1 ELSE 0
    ELSE IF a.Published = NilTime /\ b.Published = NilTime THEN 0
         ELSE IF a.Published = NilTime THEN 1
         ELSE IF b.Published = NilTime THEN -1
         ELSE IF a.Published > b.Published THEN -1
         ELSE IF a.Published < b.Published THEN 1 ELSE 0

Swap(s, i, j) == [s EXCEPT ![i] = s[j], ![j] = s[i]]

RECURSIVE SiftDown(_, _, _)
\* inner loop of the insertion sort: for j := i; j > a && cmp(data[j], data[j-1]) < 0; j--
SiftDown(v, s, j) ==
    IF j > 1 /\ Cmp(v, s[j], s[j - 1]) < 0
    THEN SiftDown(v, Swap(s, j, j - 1), j - 1)
    ELSE s

RECURSIVE InsertionSort(_, _, _)
InsertionSort(v, s, i) ==
    IF i > Len(s) THEN s ELSE InsertionSort(v, SiftDown(v, s, i), i + 1)

\* slices.SortFunc(x, cmp), on at most 12 elements an insertion sort from
\* the second element on;
\* the sort is in place: it permutes the first len elements of the array
SortInPlace(v, h, s) ==
    IF s.arr = 0 THEN h
    ELSE [h EXCEPT ![s.arr] =
             InsertionSort(v, SubSeq(@, 1, s.len), 2) \o SubSeq(@, s.len + 1, s.cap)]

-----------------------------------------------------------------------------
(* ArticleStore *)

StoreSeq == View(heap, sorted)

\* ArticleStore.Count (chapter09): len(s.sorted)
CountOf == sorted.len

SeqLinks(s) == {s[i].Link : i \in 1..Len(s)}

RECURSIVE InsertLoop(_, _, _, _, _, _)
\* the loop of AddArticles: append every article whose Link is not in the
\* cache; yields the cache, the slice, the heap and the dirty/hasNew flag
InsertLoop(c, h, s, batch, keep, dirty) ==
    IF batch = <<>> THEN [cache |-> c, heap |-> h, s |-> s, dirty |-> dirty]
    ELSE LET a == Head(batch) IN
         IF a.Link \in c
         THEN InsertLoop(c, h, s, Tail(batch), keep, dirty)
         ELSE LET r == AppendSlice(h, s, <<a>>, keep)
              IN InsertLoop(c \cup {a.Link}, r.heap, r.s, Tail(batch), keep, TRUE)

\* the fan-out/fan-in before any call
FanIdle ==
    /\ fanImpl = "ch09"
    /\ urls = <<>>
    /\ fanPc = "idle"
    /\ wg = 0
    /\ task = <<>>
    /\ resultsChan = [buf |-> <<>>, closed |-> FALSE]
    /\ errorsChan = [buf |-> <<>>, closed |-> FALSE]
    /\ closer = "none"
    /\ open = [results |-> TRUE, errors |-> TRUE]
    /\ feeds = <<>>
    /\ errs = <<>>
    /\ articlesOut = <<>>
    /\ response = [status |-> 0]
    /\ callerCtx = "live"

\* no pool
PoolIdle ==
    /\ poolImpl = "ch09"
    /\ jobs = [buf |-> <<>>, closed |-> FALSE]
    /\ results = <<>>
    /\ worker = <<>>
    /\ sub = <<>>
    /\ submitted = 0

\* no App
AppIdle ==
    /\ feedRead = [buf |-> <<>>, closed |-> FALSE]
    /\ errChan = [buf |-> <<>>, closed |-> FALSE]
    /\ runPc = [pc |-> "none", url |-> 0]
    /\ closePc = "open"
    /\ sources = <<>>
    /\ saves = <<>>
    /\ fed = 0
    /\ log = <<>>

\* NewCalculator: &Calculator{}; NewKVStore: an empty map
CalcKvIdle ==
    /\ calc = [mem |-> 0, result |-> 0, err |-> "nil"]
    /\ calcRet = [op |-> "new", name |-> "", a |-> 0, b |-> 0, val |-> 0, err |-> "nil"]
    /\ seen = [ok |-> FALSE, val |-> 0]
    /\ expectMem = 0
    /\ kv = <<>>
    /\ kvRet = [op |-> "new", keys |-> <<>>, vals |-> <<>>, err |-> "nil", missing |-> <<>>]

\* no call of fetchFeedWithContext and no SimpleErrGroup in use
DemoIdle ==
    /\ ctx = "live"
    /\ fc = <<>>
    /\ eg = [wg |-> 0, err |-> 0, fn |-> <<>>, pc |-> "idle", ret |-> 0, order |-> <<>>]

LibIdle == CalcKvIdle /\ DemoIdle

\* a goroutine has panicked (a send on a closed channel): the runtime ends
\* the process and no goroutine takes another step
Crashed ==
    \/ runPc.pc = "panic"
    \/ \E w \in DOMAIN worker : worker[w].pc = "panic"
    \/ \E s \in DOMAIN sub : sub[s].pc = "panic"

\* a call that has returned
Call(op, n) == [op |-> op, n |-> n, outcome |-> "ok"]

StoreInit ==
    /\ variant \in {"ch09", "gonews", "api"}
    /\ cache = {}
    /\ sorted = NilSlice
    /\ heap = [a \in Addr |-> <<>>]
    /\ result = NilSlice
    /\ last = Call("new", 0)
    /\ inserted = {}

\* mutant: AddArticle as an upsert, a Link already stored gets the new article
AddArticleBody_Upsert(v, c, h, s, article, keep) ==
    IF article.Link \in c
    THEN LET h1 == [h EXCEPT ![s.arr] =
                       [i \in 1..s.cap |->
                           IF i <= s.len /\ h[s.arr][i].Link = article.Link
                           THEN article ELSE h[s.arr][i]]]
         IN [cache |-> c, heap |-> SortInPlace(v, h1, s), s |-> s, dirty |-> TRUE]
    ELSE LET r == AppendSlice(h, s, <<article>>, keep)
         IN [cache |-> c \cup {article.Link},
             heap |-> SortInPlace(v, r.heap, r.s), s |-> r.s, dirty |-> TRUE]

\* mutant: AddArticle without the cache check
AddArticleBody_NoCheck(v, c, h, s, article, keep) ==
    LET r == AppendSlice(h, s, <<article>>, keep)
    IN [cache |-> c \cup {article.Link},
        heap |-> SortInPlace(v, r.heap, r.s), s |-> r.s, dirty |-> TRUE]

\* AddArticle (chapter09, go-news): the cache check, the append, the sort
AddArticleBody(v, c, h, s, article, keep) ==
    IF article.Link \in c
    THEN [cache |-> c, heap |-> h, s |-> s, dirty |-> FALSE]
    ELSE LET r == AppendSlice(h, s, <<article>>, keep)
         IN [cache |-> c \cup {article.Link},
             heap |-> SortInPlace(v, r.heap, r.s), s |-> r.s, dirty |-> TRUE]

\* mutant: AddArticles appends the new articles without recording their
\* Links in the cache
AddArticlesBody_NoCacheUpdate(v, c, h, s, articles, keep) ==
    LET r == InsertLoop(c, h, s, articles, keep, FALSE)
    IN [r EXCEPT !.cache = c,
                 !.heap = IF r.dirty THEN SortInPlace(v, r.heap, r.s) ELSE r.heap]

\* AddArticles (chapter09, go-news): the insert loop, then one sort when
\* something was added
AddArticlesBody(v, c, h, s, articles, keep) ==
    LET r == InsertLoop(c, h, s, articles, keep, FALSE)
    IN [r EXCEPT !.heap = IF r.dirty THEN SortInPlace(v, r.heap, r.s) ELSE r.heap]

\* AddArticles (chapter11 api): one append of the whole batch, no cache, and
\* the sort always runs
AddArticlesApiBody(v, c, h, s, articles, keep) ==
    LET r == AppendSlice(h, s, articles, keep)
    IN [cache |-> c, heap |-> SortInPlace(v, r.heap, r.s), s |-> r.s, dirty |-> TRUE]

\* the effect of a write on the state; offered is the number of articles
\* passed in, and last.n records how many of them were dropped
StoreWrite(r, links, offered) ==
    LET c == Canon(r.heap, r.s, result) IN
    /\ cache' = r.cache
    /\ sorted' = c.s
    /\ heap' = c.heap
    /\ result' = c.r
    /\ inserted' = inserted \cup links
    /\ last' = Call("Add", offered - (r.s.len - sorted.len))
    /\ UNCHANGED variant

Write(r, links, offered) ==
    /\ StoreWrite(r, links, offered)
    /\ UNCHANGED <<fanVars, poolVars, appVars, libVars>>

AddArticle(article) ==
    /\ variant \in {"ch09", "gonews"}
    /\ Write(AddArticleBody(variant, cache, heap, sorted, article, result.arr),
             {article.Link}, 1)

AddArticles(articles) ==
    /\ variant \in {"ch09", "gonews"}
    /\ Write(AddArticlesBody(variant, cache, heap, sorted, articles, result.arr),
             SeqLinks(articles), Len(articles))

AddArticlesApi(articles) ==
    /\ variant = "api"
    /\ sorted.len + Len(articles) <= MaxLen
    /\ Write(AddArticlesApiBody(variant, cache, heap, sorted, articles, result.arr),
             SeqLinks(articles), Len(articles))

\* mutant: the result is s[:n] itself, not a copy
CopyOut_Alias(h, s, n) ==
    [heap |-> Release(h, {s.arr}), s |-> [s EXCEPT !.len = n]]

\* result := make([]Article, n); copy(result, s[:n])
CopyOut(h, s, n) ==
    IF n = 0 THEN [heap |-> Release(h, {s.arr}), s |-> NilSlice]
    ELSE LET a == FreeAddr({s.arr})
         IN [heap |-> Release([h EXCEPT ![a] = SubSeq(h[s.arr], 1, n)], {s.arr, a}),
             s |-> [arr |-> a, len |-> n, cap |-> n]]

\* return s.sorted[:n]: a slice header over the store's own array
SliceOf(h, s, n) ==
    [heap |-> Release(h, {s.arr}), s |-> [s EXCEPT !.len = n]]

Panic == [outcome |-> "panic"]

Ok(r) == [outcome |-> "ok", heap |-> r.heap, s |-> r.s]

\* mutant: n is not clamped to the length, so s[:n] is out of range
GetRecentBody_NoClamp(v, h, s, n) ==
    IF n > s.len THEN Panic
    ELSE IF v = "api" /\ n <= 0 THEN Ok([heap |-> Release(h, {s.arr}), s |-> NilSlice])
    ELSE IF n < 0 THEN Panic
    ELSE IF v = "gonews" THEN Ok(SliceOf(h, s, n))
    ELSE Ok(CopyOut(h, s, n))

\* the body of GetRecent(n) of each store, under the read lock
GetRecentBody(v, h, s, n) ==
    IF v = "ch09"
    THEN LET m == IF n > s.len THEN s.len ELSE n IN
         IF m < 0 THEN Panic            \* make([]Article, n) with n < 0
         ELSE Ok(CopyOut(h, s, m))
    ELSE IF v = "gonews"
    THEN IF n > s.len THEN Ok(SliceOf(h, s, s.len))
         ELSE IF n < 0 THEN Panic       \* s.sorted[:n] with n < 0
         ELSE Ok(SliceOf(h, s, n))
    ELSE IF n <= 0 THEN Ok([heap |-> Release(h, {s.arr}), s |-> NilSlice])
         ELSE Ok(CopyOut(h, s, IF n > s.len THEN s.len ELSE n))

\* the values of n a caller passes
Ns == (0 - 1)..(MaxLen + 1)

\* GetRecent(n).  A panic unwinds through the deferred RUnlock and leaves
\* the store as it was; the caller gets no result.
GetRecent(n) ==
    /\ LET r == GetRecentBody(variant, heap, sorted, n) IN
       IF r.outcome = "panic"
       THEN /\ last' = [op |-> "GetRecent", n |-> n, outcome |-> "panic"]
            /\ UNCHANGED <<heap, result>>
       ELSE LET c == Canon(r.heap, sorted, r.s) IN
            /\ last' = Call("GetRecent", n)
            /\ heap' = c.heap
            /\ result' = c.r
    /\ UNCHANGED <<variant, cache, sorted, inserted>>
    /\ UNCHANGED <<fanVars, poolVars, appVars, libVars>>

\* Count (chapter09): len(s.sorted)
Count ==
    /\ variant = "ch09"
    /\ last' = Call("Count", CountOf)
    /\ UNCHANGED <<variant, cache, sorted, heap, result, inserted>>
    /\ UNCHANGED <<fanVars, poolVars, appVars, libVars>>

-----------------------------------------------------------------------------
(* A caller that writes to the slice GetRecent returned to it.  It holds no
   lock. *)

\* result[i] = a
ClientOverwrite(i, a) ==
    /\ i \in 1..result.len
    /\ heap' = [heap EXCEPT ![result.arr][i] = a]
    /\ last' = Call("client", 0)
    /\ UNCHANGED <<variant, cache, sorted, result, inserted>>
    /\ UNCHANGED <<fanVars, poolVars, appVars, libVars>>

\* result[i], result[j] = result[j], result[i]
ClientSwap(i, j) ==
    /\ i \in 1..result.len /\ j \in 1..result.len /\ i < j
    /\ heap' = [heap EXCEPT ![result.arr] = Swap(@, i, j)]
    /\ last' = Call("client", 0)
    /\ UNCHANGED <<variant, cache, sorted, result, inserted>>
    /\ UNCHANGED <<fanVars, poolVars, appVars, libVars>>

\* result = result[:k]
ClientTruncate(k) ==
    /\ k \in 0..(result.len - 1)
    /\ result' = [result EXCEPT !.len = k]
    /\ last' = Call("client", 0)
    /\ UNCHANGED <<variant, cache, sorted, heap, inserted>>
    /\ UNCHANGED <<fanVars, poolVars, appVars, libVars>>

-----------------------------------------------------------------------------
(* Specifications of the store *)

StoreNext ==
    \/ \E a \in ArticlesOf(variant) : AddArticle(a)
    \/ \E b \in BatchesOf(variant) : AddArticles(b)
    \/ \E b \in BatchesOf(variant) : AddArticlesApi(b)
    \/ \E n \in Ns : GetRecent(n)
    \/ Count

ClientNext ==
    \/ \E i \in 1..MaxClientLen : ClientOverwrite(i, [Link |-> "l1", Published |-> MaxTime])
    \/ \E i \in 1..MaxClientLen, j \in 1..MaxClientLen : ClientSwap(i, j)
    \/ \E k \in 0..MaxClientLen : ClientTruncate(k)

Init == StoreInit /\ FanIdle /\ PoolIdle /\ AppIdle /\ LibIdle

Spec == Init /\ [][StoreNext]_vars

\* the stores whose GetRecent copies, with a caller that writes to the copy
SpecStoreClient ==
    /\ Init /\ variant \in {"ch09", "api"}
    /\ [][(StoreNext /\ sorted'.len <= MaxClientLen) \/ ClientNext]_vars

-----------------------------------------------------------------------------
(* Properties of the stores *)

NoDupLinks(s) == \A i, j \in 1..Len(s) : i # j => s[i].Link # s[j].Link

\* most recent first; NilTime is below every time, so undated articles trail
IsSortedDesc(s) == \A i, j \in 1..Len(s) : i < j => s[i].Published >= s[j].Published

\* what the caller's slice holds now
ResultSeq == View(heap, result)

\* what GetRecent(n) would return in the current state
Recent(n) ==
    LET r == GetRecentBody(variant, heap, sorted, n)
    IN IF r.outcome = "panic" THEN <<"panic">> ELSE View(r.heap, r.s)

\* C1: in the chapter09 and go-news stores no two stored articles share a
\* Link, and Count equals the number of distinct Links ever passed to
\* AddArticle/AddArticles, whatever the repetition and batching.
C1_Dedup ==
    variant \in {"ch09", "gonews"} =>
        /\ NoDupLinks(StoreSeq)
        /\ CountOf = Cardinality(inserted)
        /\ SeqLinks(StoreSeq) = inserted

\* a batch with a duplicate has been added to a store of two articles or more
C1_Witness ==
    /\ variant \in {"ch09", "gonews"}
    /\ last.op = "Add" /\ last.n >= 1
    /\ CountOf >= 2

\* C4: in the chapter09 and chapter11 api stores the stored sequence is in
\* non-increasing order of publication time (undated last) in every state a
\* GetRecent can observe, and so is every result GetRecent returns.
C4_Sorted ==
    variant \in {"ch09", "api"} =>
        /\ IsSortedDesc(StoreSeq)
        /\ last.op = "GetRecent" => IsSortedDesc(ResultSeq)

\* three articles with at least two different ordering keys were added
C4_Witness ==
    /\ variant \in {"ch09", "api"}
    /\ last.op = "Add"
    /\ CountOf >= 3
    /\ StoreSeq[1].Published # StoreSeq[3].Published

\* C5: in the go-news store GetRecent returns the dated articles in
\* non-increasing Published order with every undated article after every
\* dated one.
C5_GoNewsSorted ==
    (variant = "gonews" /\ last.op = "GetRecent" /\ last.outcome = "ok") =>
        IsSortedDesc(ResultSeq)

\* C6: in the go-news store the slice GetRecent returned is a snapshot: a
\* later AddArticle/AddArticles never changes what it holds.
C6_Snapshot ==
    [][(variant = "gonews" /\ last'.op = "Add") => ResultSeq' = ResultSeq]_vars

\* C7: in the chapter09 and chapter11 api stores, overwriting, reordering or
\* truncating the slice GetRecent returned leaves the store unchanged, and
\* with it the result of every later GetRecent.
C7_Isolation ==
    [][(variant \in {"ch09", "api"} /\ last'.op = "client") =>
          /\ StoreSeq' = StoreSeq
          /\ cache' = cache
          /\ \A n \in Ns : Recent(n)' = Recent(n)]_vars

\* the caller has changed a result that was the whole store
C7_Witness ==
    /\ variant \in {"ch09", "api"}
    /\ last.op = "client"
    /\ CountOf >= 2
    /\ result.len = CountOf
    /\ ResultSeq # StoreSeq

\* C8: for every n <= 0 the chapter09 and go-news GetRecent returns an
\* empty result without panicking.
C8_NonPositive ==
    (variant \in {"ch09", "gonews"} /\ last.op = "GetRecent" /\ last.n <= 0) =>
        /\ last.outcome = "ok"
        /\ ResultSeq = <<>>

\* C9: for every n >= 0, GetRecent(n) returns exactly the first
\* min(n, Count()) stored elements in stored order; all of them when n
\* exceeds the count.
C9_Prefix ==
    (last.op = "GetRecent" /\ last.n >= 0) =>
        /\ last.outcome = "ok"
        /\ ResultSeq = SubSeq(StoreSeq, 1, IF last.n < CountOf THEN last.n ELSE CountOf)

\* GetRecent was asked for more than the two or more articles there are
C9_Witness ==
    /\ last.op = "GetRecent"
    /\ last.n > CountOf
    /\ CountOf >= 2
    /\ ResultSeq = StoreSeq

-----------------------------------------------------------------------------
(* Fan-out/fan-in: chapter09 fanOutFanIn and go-news Handler.SyncHandler.

   The calling goroutine launches one goroutine per locator (wg.Add(1) then
   go), starts the goroutine that waits for the WaitGroup and closes the
   channel(s), and collects until the channel(s) are closed.  chapter09 has
   two channels (results, errors) and a select loop; go-news has one channel
   of result{articles, err} and a range loop. *)

Locators == {"https://ok.io/rss", "https://bad.io/rss00"}

\* the outcomes a fetch of u can have: fetchFeedSimulated fails exactly when
\* len(url)%10 == 0; FetchFeedSync depends on the network
Outcomes(impl, u) ==
    LET UrlLen == IF u = "https://ok.io/rss" THEN 17 ELSE 20 IN   \* len(url)
    IF impl = "ch09"
    THEN IF UrlLen % 10 = 0 THEN {"err"} ELSE {"ok"}
    ELSE {"ok", "err"}

\* the articles fetchFeedSimulated returns for url: url/article1..3,
\* published one, two and three hours ago
FeedArticles(u) ==
    [i \in 1..3 |-> [Link |-> <<u, i>>, Published |-> 4 - i]]

\* what a task puts on the channel; src is history (the index of the
\* task); a go-news feed has two articles
Outcome(impl, i, u, out) ==
    IF out = "err"
    THEN [src |-> i, err |-> IF impl = "ch09" THEN "simulated network error"
                            ELSE "fetch error", val |-> <<>>]
    ELSE [src |-> i, err |-> "nil", val |-> IF impl = "ch09" THEN <<[URL |-> u]>>
                                          ELSE <<[Link |-> u, n |-> 1], [Link |-> u, n |-> 2]>>]

\* mutant: the channels are made with half the capacity
ChanCap_Half == Len(urls) \div 2

\* make(chan T, len(urls))
ChanCap == Len(urls)

NewChan == [buf |-> <<>>, closed |-> FALSE]

StoreIdle == StoreInit /\ variant = "ch09"

\* the call starts: channels made, nothing launched yet
FanInit ==
    /\ StoreIdle
    /\ PoolIdle
    /\ AppIdle
    /\ LibIdle
    /\ fanImpl \in {"ch09", "gonews"}
    /\ urls \in UNION {[1..k -> Locators] : k \in 0..MaxUrls}
    /\ fanPc = "launch"
    /\ wg = 0
    /\ task = [i \in 1..Len(urls) |-> [pc |-> "new", out |-> "none"]]
    /\ resultsChan = NewChan
    /\ errorsChan = NewChan
    /\ closer = "none"
    /\ open = [results |-> TRUE, errors |-> TRUE]
    /\ feeds = <<>>
    /\ errs = <<>>
    /\ articlesOut = <<>>
    /\ response = [status |-> 0]
    /\ callerCtx = "live"

Launched == {i \in 1..Len(urls) : task[i].pc # "new"}

\* wg.Add(1); go func(url) {...}(url) for the next locator
Launch(i) ==
    /\ fanPc = "launch"
    /\ i = Cardinality(Launched) + 1
    /\ i <= Len(urls)
    /\ wg' = wg + 1
    /\ task' = [task EXCEPT ![i].pc = "fetch"]
    /\ UNCHANGED <<callerCtx, response, fanImpl, urls, fanPc, resultsChan, errorsChan, closer, open,
                   feeds, errs, articlesOut>>
    /\ UNCHANGED <<storeVars, poolVars, appVars, libVars>>

\* go func() { wg.Wait(); close(...) }() once the launch loop is over
StartCloser ==
    /\ fanPc = "launch"
    /\ Cardinality(Launched) = Len(urls)
    /\ closer' = "wait"
    /\ fanPc' = "collect"
    /\ UNCHANGED <<callerCtx, response, fanImpl, urls, wg, task, resultsChan, errorsChan, open,
                   feeds, errs, articlesOut>>
    /\ UNCHANGED <<storeVars, poolVars, appVars, libVars>>

\* a send on channel c
SendOn(c, m) == [c EXCEPT !.buf = Append(@, m)]

\* mutant: a failed task returns without sending its error
Send_DropError(i, out) ==
    LET m == Outcome(fanImpl, i, urls[i], out)
    IN IF out = "err"
       THEN /\ task' = [task EXCEPT ![i] = [pc |-> "deferred", out |-> out]]
            /\ UNCHANGED <<resultsChan, errorsChan>>
       ELSE /\ ~resultsChan.closed
            /\ Len(resultsChan.buf) < ChanCap
            /\ task' = [task EXCEPT ![i] = [pc |-> "deferred", out |-> out]]
            /\ resultsChan' = SendOn(resultsChan, m)
            /\ UNCHANGED errorsChan

\* task i sends its outcome: chapter09 errors <- err or results <- feed,
\* go-news resultsChan <- result{...}.  The send panics when the channel is
\* closed and waits while the buffer is full.
Send(i, out) ==
    LET m == Outcome(fanImpl, i, urls[i], out)
        toErrors == fanImpl = "ch09" /\ out = "err"
        c == IF toErrors THEN errorsChan ELSE resultsChan
    IN IF c.closed
       THEN /\ task' = [task EXCEPT ![i] = [pc |-> "panic", out |-> out]]
            /\ UNCHANGED <<resultsChan, errorsChan>>
       ELSE /\ Len(c.buf) < ChanCap
            /\ task' = [task EXCEPT ![i] = [pc |-> "deferred", out |-> out]]
            /\ IF toErrors
               THEN errorsChan' = SendOn(errorsChan, m) /\ UNCHANGED resultsChan
               ELSE resultsChan' = SendOn(resultsChan, m) /\ UNCHANGED errorsChan

\* the body of task i: the fetch returns and the task sends what it got
Fetch(i) ==
    /\ i \in 1..Len(urls)
    /\ task[i].pc = "fetch"
    /\ \E out \in Outcomes(fanImpl, urls[i]) : Send(i, out)
    /\ UNCHANGED <<callerCtx, response, fanImpl, urls, fanPc, wg, closer, open, feeds, errs, articlesOut>>
    /\ UNCHANGED <<storeVars, poolVars, appVars, libVars>>

\* the deferred wg.Done() of task i
Done(i) ==
    /\ i \in 1..Len(urls)
    /\ task[i].pc = "deferred"
    /\ wg' = wg - 1
    /\ task' = [task EXCEPT ![i].pc = "done"]
    /\ UNCHANGED <<callerCtx, response, fanImpl, urls, fanPc, resultsChan, errorsChan, closer, open,
                   feeds, errs, articlesOut>>
    /\ UNCHANGED <<storeVars, poolVars, appVars, libVars>>

\* mutant: the closer does not wait for the WaitGroup
CloserWait_NoWait ==
    /\ closer = "wait"
    /\ closer' = "closeResults"
    /\ UNCHANGED <<callerCtx, response, fanImpl, urls, fanPc, wg, task, resultsChan, errorsChan, open,
                   feeds, errs, articlesOut>>
    /\ UNCHANGED <<storeVars, poolVars, appVars, libVars>>

\* wg.Wait() returns
CloserWait ==
    /\ closer = "wait"
    /\ wg = 0
    /\ closer' = "closeResults"
    /\ UNCHANGED <<callerCtx, response, fanImpl, urls, fanPc, wg, task, resultsChan, errorsChan, open,
                   feeds, errs, articlesOut>>
    /\ UNCHANGED <<storeVars, poolVars, appVars, libVars>>

\* close(results) / close(resultsChan)
CloseResults ==
    /\ closer = "closeResults"
    /\ resultsChan' = [resultsChan EXCEPT !.closed = TRUE]
    /\ closer' = IF fanImpl = "ch09" THEN "closeErrors" ELSE "done"
    /\ UNCHANGED <<callerCtx, response, fanImpl, urls, fanPc, wg, task, errorsChan, open, feeds, errs,
                   articlesOut>>
    /\ UNCHANGED <<storeVars, poolVars, appVars, libVars>>

\* close(errors) (chapter09)
CloseErrors ==
    /\ closer = "closeErrors"
    /\ errorsChan' = [errorsChan EXCEPT !.closed = TRUE]
    /\ closer' = "done"
    /\ UNCHANGED <<callerCtx, response, fanImpl, urls, fanPc, wg, task, resultsChan, open, feeds, errs,
                   articlesOut>>
    /\ UNCHANGED <<storeVars, poolVars, appVars, libVars>>

\* chapter09 select, case feed, ok := <-results
RecvFeed ==
    /\ fanImpl = "ch09" /\ fanPc = "collect"
    /\ open.results
    /\ IF resultsChan.buf # <<>>
       THEN /\ feeds' = Append(feeds, Head(resultsChan.buf))
            /\ resultsChan' = [resultsChan EXCEPT !.buf = Tail(@)]
            /\ UNCHANGED open
       ELSE /\ resultsChan.closed
            /\ open' = [open EXCEPT !.results = FALSE]
            /\ UNCHANGED <<feeds, resultsChan>>
    /\ UNCHANGED <<callerCtx, response, fanImpl, urls, fanPc, wg, task, errorsChan, closer, errs,
                   articlesOut>>
    /\ UNCHANGED <<storeVars, poolVars, appVars, libVars>>

\* chapter09 select, case err, ok := <-errors
RecvErr ==
    /\ fanImpl = "ch09" /\ fanPc = "collect"
    /\ open.errors
    /\ IF errorsChan.buf # <<>>
       THEN /\ errs' = Append(errs, Head(errorsChan.buf))
            /\ errorsChan' = [errorsChan EXCEPT !.buf = Tail(@)]
            /\ UNCHANGED open
       ELSE /\ errorsChan.closed
            /\ open' = [open EXCEPT !.errors = FALSE]
            /\ UNCHANGED <<errs, errorsChan>>
    /\ UNCHANGED <<callerCtx, response, fanImpl, urls, fanPc, wg, task, resultsChan, closer, feeds,
                   articlesOut>>
    /\ UNCHANGED <<storeVars, poolVars, appVars, libVars>>

\* chapter09: the loop condition results != nil || errors != nil fails
ReturnCh09 ==
    /\ fanImpl = "ch09" /\ fanPc = "collect"
    /\ ~open.results /\ ~open.errors
    /\ fanPc' = "done"
    /\ UNCHANGED <<callerCtx, response, fanImpl, urls, wg, task, resultsChan, errorsChan, closer, open,
                   feeds, errs, articlesOut>>
    /\ UNCHANGED <<storeVars, poolVars, appVars, libVars>>

\* go-news: one iteration of for res := range resultsChan, or its end
RangeResults ==
    /\ fanImpl = "gonews" /\ fanPc = "collect"
    /\ IF resultsChan.buf # <<>>
       THEN LET res == Head(resultsChan.buf) IN
            /\ resultsChan' = [resultsChan EXCEPT !.buf = Tail(@)]
            /\ IF res.err # "nil"
               THEN errs' = Append(errs, res) /\ UNCHANGED <<feeds, articlesOut>>
               ELSE /\ articlesOut' = articlesOut \o res.val
                    /\ feeds' = Append(feeds, res)
                    /\ UNCHANGED errs
            /\ UNCHANGED fanPc
       ELSE /\ resultsChan.closed
            /\ fanPc' = "done"
            /\ UNCHANGED <<resultsChan, feeds, errs, articlesOut>>
    /\ UNCHANGED <<callerCtx, response, fanImpl, urls, wg, task, errorsChan, closer, open>>
    /\ UNCHANGED <<storeVars, poolVars, appVars, libVars>>

RECURSIVE AddFeeds(_, _)
\* chapter09 syncHandler: for _, feed := range feeds { a.store.AddArticles(feed.Articles) }
AddFeeds(r, fs) ==
    IF fs = <<>> THEN r
    ELSE AddFeeds(AddArticlesBody(variant, r.cache, r.heap, r.s,
                                  FeedArticles(Head(fs).val[1].URL), result.arr),
                  Tail(fs))

\* the rest of the handler once the collector is back.  chapter09
\* syncHandler: fanOutFanIn returned an error iff a fetch failed and the
\* handler then answers 500 and returns; otherwise it adds the feeds to the
\* store and answers with the counts.  go-news SyncHandler: 206 with the
\* articles and the error strings when a fetch failed, else the articles.
Respond ==
    /\ fanPc = "done"
    /\ fanPc' = "responded"
    /\ IF fanImpl = "ch09"
       THEN IF errs # <<>>
            THEN /\ response' = [status |-> 500, encountered |-> Len(errs)]
                 /\ UNCHANGED storeVars
            ELSE LET r == AddFeeds([cache |-> cache, heap |-> heap, s |-> sorted], feeds) IN
                 /\ StoreWrite(r, {}, 0)
                 /\ response' = [status |-> 200, fetched |-> Len(feeds),
                                 count |-> r.s.len]
       ELSE /\ UNCHANGED storeVars
            /\ response' = IF errs # <<>>
                           THEN [status |-> 206, articles |-> articlesOut,
                                 errors |-> [j \in 1..Len(errs) |-> errs[j].err]]
                           ELSE [status |-> 200, articles |-> articlesOut]
    /\ UNCHANGED <<fanImpl, urls, wg, task, resultsChan, errorsChan, closer, open,
                   feeds, errs, articlesOut, callerCtx>>
    /\ UNCHANGED <<poolVars, appVars, libVars>>

\* the request's context ends (the client went away, or a deadline set
\* above the handler passed).  Neither handler reads it: SyncHandler derives
\* the tasks' contexts from context.Background(), fanOutFanIn takes none.
CancelRequest ==
    /\ fanPc \in {"launch", "collect", "done"}
    /\ callerCtx = "live"
    /\ callerCtx' = "cancelled"
    /\ UNCHANGED <<response, fanImpl, urls, fanPc, wg, task, resultsChan, errorsChan,
                   closer, open, feeds, errs, articlesOut>>
    /\ UNCHANGED <<storeVars, poolVars, appVars, libVars>>

TaskStep(i) == Fetch(i) \/ Done(i)

CloserStep == CloserWait \/ CloseResults \/ CloseErrors

MainStep ==
    \/ \E i \in 1..MaxUrls : Launch(i)
    \/ StartCloser
    \/ RecvFeed
    \/ RecvErr
    \/ ReturnCh09
    \/ RangeResults

FanNext ==
    \/ \E i \in 1..MaxUrls : Launch(i)
    \/ StartCloser
    \/ \E i \in 1..MaxUrls : Fetch(i)
    \/ \E i \in 1..MaxUrls : Done(i)
    \/ CloserWait
    \/ CloseResults
    \/ CloseErrors
    \/ RecvFeed
    \/ RecvErr
    \/ ReturnCh09
    \/ RangeResults
    \/ Respond

SpecFan == FanInit /\ [][FanNext]_vars

\* the fan-out/fan-in under a request whose context can end at any moment
SpecFanCancel == FanInit /\ [][FanNext \/ CancelRequest]_vars

\* every goroutine that can take a step eventually takes one (the Go
\* scheduler starves no goroutine; a fetch returns: fetchFeedSimulated sleeps
\* and returns, FetchFeedSync runs under a 30 second timeout)
FairSpecFan ==
    /\ SpecFan
    /\ \A i \in 1..MaxUrls : WF_vars(TaskStep(i))
    /\ WF_vars(CloserStep)
    /\ WF_vars(MainStep)

-----------------------------------------------------------------------------
(* Properties of the fan-out/fan-in *)

Failed == {i \in 1..Len(urls) : task[i].out = "err"}

Succeeded == {i \in 1..Len(urls) : task[i].out = "ok"}

Srcs(s) == {s[j].src : j \in 1..Len(s)}

RECURSIVE Flatten(_)
Flatten(s) == IF s = <<>> THEN <<>> ELSE Head(s).val \o Flatten(Tail(s))

\* every task has put its outcome on its channel
AllWritten == \A i \in 1..Len(urls) : task[i].pc \in {"deferred", "done"}

\* C2: when the collector returns, it holds exactly one failure entry per
\* failed locator and exactly the batches of the locators that succeeded,
\* each once, whatever the order in which the tasks completed.
C2_FanInComplete ==
    fanPc = "done" =>
        /\ Len(errs) = Cardinality(Failed)
        /\ Srcs(errs) = Failed
        /\ Len(feeds) = Cardinality(Succeeded)
        /\ Srcs(feeds) = Succeeded
        /\ Failed \cup Succeeded = 1..Len(urls)
        /\ \A j \in 1..Len(feeds) :
              feeds[j] = Outcome(fanImpl, feeds[j].src, urls[feeds[j].src], "ok")
        /\ fanImpl = "gonews" => articlesOut = Flatten(feeds)

\* three locators, one failed and two succeeded, and the collector is back
C2_Witness ==
    /\ fanPc = "done"
    /\ Len(urls) = 3
    /\ Len(errs) = 1
    /\ Len(feeds) = 2

-----------------------------------------------------------------------------
(* WorkerPool: chapter09 (NewWorkerPool, Worker.run, Submit, Close) and
   go-news (NewWorkerPool, Worker.run, Submit, Stop).

   The workers range over the buffered job channel.  A chapter09 worker
   fetches, adds the feed's articles to the store and sends the feed on the
   buffered results channel; a go-news worker calls processor.ProcessFeed
   under a 30 second timeout and discards what it returns. *)

Workers == 1..NumWorkers

Submitters == 1..2

\* NewWorkerPool: the channels are made and every worker is started
PoolInit ==
    /\ StoreIdle
    /\ FanIdle
    /\ AppIdle
    /\ LibIdle
    /\ poolImpl \in {"ch09", "gonews"}
    /\ jobs = [buf |-> <<>>, closed |-> FALSE]
    /\ results = <<>>
    /\ worker = [w \in Workers |-> [pc |-> "recv", url |-> ""]]
    /\ sub = [s \in Submitters |-> [pc |-> "idle", url |-> "", blocked |-> FALSE,
                                     stopped |-> FALSE]]
    /\ submitted = 0

\* a goroutine calls Submit(url); blocked records whether it found the
\* queue full, stopped whether the pool had been stopped
SubmitCall(s, u) ==
    /\ ~Crashed
    /\ sub[s].pc = "idle"
    /\ submitted < NumWorkers + QueueCap + 1   \* occupy the workers, fill the queue, one waits
    /\ submitted' = submitted + 1
    /\ sub' = [sub EXCEPT ![s] = [pc |-> "sending", url |-> u,
                                  blocked |-> Len(jobs.buf) = QueueCap,
                                  stopped |-> jobs.closed]]
    /\ UNCHANGED <<poolImpl, jobs, results, worker>>
    /\ UNCHANGED <<storeVars, fanVars, appVars, libVars>>

\* mutant: Submit gives up when the queue is full (select with default)
SubmitSend_Drop(s) ==
    /\ ~Crashed
    /\ sub[s].pc = "sending"
    /\ IF jobs.closed
       THEN sub' = [sub EXCEPT ![s].pc = "panic"] /\ UNCHANGED jobs
       ELSE IF Len(jobs.buf) < QueueCap
       THEN /\ jobs' = [jobs EXCEPT !.buf = Append(@, sub[s].url)]
            /\ sub' = [sub EXCEPT ![s].pc = "idle"]
       ELSE sub' = [sub EXCEPT ![s].pc = "idle"] /\ UNCHANGED jobs
    /\ UNCHANGED <<poolImpl, results, worker, submitted>>
    /\ UNCHANGED <<storeVars, fanVars, appVars, libVars>>

\* mutant: the send does not notice that the channel is closed
SubmitSend_NoPanic(s) ==
    /\ ~Crashed
    /\ sub[s].pc = "sending"
    /\ Len(jobs.buf) < QueueCap
    /\ jobs' = [jobs EXCEPT !.buf = Append(@, sub[s].url)]
    /\ sub' = [sub EXCEPT ![s].pc = "idle"]
    /\ UNCHANGED <<poolImpl, results, worker, submitted>>
    /\ UNCHANGED <<storeVars, fanVars, appVars, libVars>>

\* the send of Submit: p.jobs <- url / wp.incomingFeeds <- url.  It panics
\* on a closed channel and waits while the buffer is full.
SubmitSend(s) ==
    /\ ~Crashed
    /\ sub[s].pc = "sending"
    /\ IF jobs.closed
       THEN sub' = [sub EXCEPT ![s].pc = "panic"] /\ UNCHANGED jobs
       ELSE /\ Len(jobs.buf) < QueueCap
            /\ jobs' = [jobs EXCEPT !.buf = Append(@, sub[s].url)]
            /\ sub' = [sub EXCEPT ![s].pc = "idle"]
    /\ UNCHANGED <<poolImpl, results, worker, submitted>>
    /\ UNCHANGED <<storeVars, fanVars, appVars, libVars>>

\* Close / Stop: close(p.jobs)
Stop ==
    /\ ~Crashed
    /\ ~jobs.closed
    /\ jobs' = [jobs EXCEPT !.closed = TRUE]
    /\ UNCHANGED <<poolImpl, results, worker, sub, submitted>>
    /\ UNCHANGED <<storeVars, fanVars, appVars, libVars>>

\* mutant: the worker starts a goroutine for each job it receives and goes
\* back to the queue at once
WorkerRecv_Spawn(w) ==
    /\ ~Crashed
    /\ w \in DOMAIN worker
    /\ worker[w].pc = "recv"
    /\ IF jobs.buf # <<>>
       THEN /\ worker' = Append(worker, [pc |-> "busy", url |-> Head(jobs.buf)])
            /\ jobs' = [jobs EXCEPT !.buf = Tail(@)]
       ELSE /\ jobs.closed
            /\ worker' = [worker EXCEPT ![w] = [pc |-> "exited", url |-> ""]]
            /\ UNCHANGED jobs
    /\ UNCHANGED <<poolImpl, results, sub, submitted>>
    /\ UNCHANGED <<storeVars, fanVars, appVars, libVars>>

\* mutant: the worker reads the first job of the queue and leaves it there
\* while the queue holds more than one
WorkerRecv_Peek(w) ==
    /\ ~Crashed
    /\ w \in DOMAIN worker
    /\ worker[w].pc = "recv"
    /\ IF jobs.buf # <<>>
       THEN /\ worker' = [worker EXCEPT ![w] = [pc |-> "busy", url |-> Head(jobs.buf)]]
            /\ jobs' = IF Len(jobs.buf) > 1 THEN jobs ELSE [jobs EXCEPT !.buf = Tail(@)]
       ELSE /\ jobs.closed
            /\ worker' = [worker EXCEPT ![w] = [pc |-> "exited", url |-> ""]]
            /\ UNCHANGED jobs
    /\ UNCHANGED <<poolImpl, results, sub, submitted>>
    /\ UNCHANGED <<storeVars, fanVars, appVars, libVars>>

\* for url := range w.jobs: the next job, or the end of the loop once the
\* channel is closed and drained
WorkerRecv(w) ==
    /\ ~Crashed
    /\ w \in DOMAIN worker
    /\ worker[w].pc = "recv"
    /\ IF jobs.buf # <<>>
       THEN /\ worker' = [worker EXCEPT ![w] = [pc |-> "busy", url |-> Head(jobs.buf)]]
            /\ jobs' = [jobs EXCEPT !.buf = Tail(@)]
       ELSE /\ jobs.closed
            /\ worker' = [worker EXCEPT ![w] = [pc |-> "exited", url |-> ""]]
            /\ UNCHANGED jobs
    /\ UNCHANGED <<poolImpl, results, sub, submitted>>
    /\ UNCHANGED <<storeVars, fanVars, appVars, libVars>>

\* chapter09: fetchFeedSimulated returns; on an error the worker continues,
\* otherwise it adds the articles to the store and goes on to send the feed
WorkerFetch(w) ==
    /\ ~Crashed
    /\ poolImpl = "ch09"
    /\ worker[w].pc = "busy"
    /\ \E out \in Outcomes("ch09", worker[w].url) :
          IF out = "err"
          THEN /\ worker' = [worker EXCEPT ![w] = [pc |-> "recv", url |-> ""]]
               /\ UNCHANGED storeVars
          ELSE /\ worker' = [worker EXCEPT ![w].pc = "sendResult"]
               /\ StoreWrite(AddArticlesBody(variant, cache, heap, sorted,
                                             FeedArticles(worker[w].url), result.arr),
                             {<<worker[w].url, i>> : i \in 1..3}, 3)
    /\ UNCHANGED <<poolImpl, jobs, results, sub, submitted>>
    /\ UNCHANGED <<fanVars, appVars, libVars>>

\* chapter09: w.results <- feed; waits while the results buffer is full
WorkerSendResult(w) ==
    /\ ~Crashed
    /\ worker[w].pc = "sendResult"
    /\ Len(results) < ResultsCap
    /\ results' = Append(results, worker[w].url)
    /\ worker' = [worker EXCEPT ![w] = [pc |-> "recv", url |-> ""]]
    /\ UNCHANGED <<poolImpl, jobs, sub, submitted>>
    /\ UNCHANGED <<storeVars, fanVars, appVars, libVars>>

\* chapter09 demonstrateWorkerPool: feed := <-pool.results
ReadResult ==
    /\ ~Crashed
    /\ results # <<>>
    /\ results' = Tail(results)
    /\ UNCHANGED <<poolImpl, jobs, worker, sub, submitted>>
    /\ UNCHANGED <<storeVars, fanVars, appVars, libVars>>

\* go-news: w.processor.ProcessFeed(ctx, url) returns (by the timeout at
\* the latest) and cancel() runs
WorkerProcess(w) ==
    /\ ~Crashed
    /\ poolImpl = "gonews"
    /\ worker[w].pc = "busy"
    /\ worker' = [worker EXCEPT ![w] = [pc |-> "recv", url |-> ""]]
    /\ UNCHANGED <<poolImpl, jobs, results, sub, submitted>>
    /\ UNCHANGED <<storeVars, fanVars, appVars, libVars>>

PoolNext ==
    \/ \E s \in Submitters, u \in Locators : SubmitCall(s, u)
    \/ \E s \in Submitters : SubmitSend(s)
    \/ Stop
    \/ \E w \in Workers : WorkerRecv(w)
    \/ \E w \in Workers : WorkerFetch(w)
    \/ \E w \in Workers : WorkerSendResult(w)
    \/ ReadResult
    \/ \E w \in Workers : WorkerProcess(w)

SpecPool == PoolInit /\ [][PoolNext]_vars

-----------------------------------------------------------------------------
(* Properties of the worker pool *)

QueueFull == Len(jobs.buf) = QueueCap

\* C10: while the job queue is full a caller of Submit stays in the call,
\* whatever the workers do; the only way out of the call while the channel
\* is open is with the job appended to the queue (it is neither dropped nor
\* answered with an error), and that way is open whenever the queue has a
\* free slot.
C10_Backpressure ==
    /\ [][\A s \in Submitters :
            (sub[s].pc = "sending" /\ ~jobs.closed /\ sub'[s] # sub[s])
                => /\ ~QueueFull
                   /\ sub'[s].pc = "idle"
                   /\ sub'[s].url = sub[s].url
                   /\ jobs'.buf = Append(jobs.buf, sub[s].url)]_vars
    /\ [](\A s \in Submitters :
            (sub[s].pc = "sending" /\ ~jobs.closed /\ ~QueueFull)
                => ENABLED SubmitSend(s))
    /\ [](\A s \in Submitters :
            (sub[s].pc = "sending" /\ ~jobs.closed /\ QueueFull)
                => ~ENABLED SubmitSend(s))

\* a Submit that found the queue full, with every worker still busy, has
\* completed and its job is the last of the queue
C10_Witness ==
    /\ ~jobs.closed
    /\ \A w \in Workers : worker[w].pc \in {"busy", "sendResult"}
    /\ \E s \in Submitters :
          /\ sub[s].pc = "idle"
          /\ sub[s].blocked
          /\ QueueFull
          /\ jobs.buf[QueueCap] = sub[s].url
          /\ submitted > NumWorkers + QueueCap

-----------------------------------------------------------------------------
(* go-news App: NewApp starts the pool and the goroutine of run; main hands
   locators to SubmitFeed and calls Close when the server has returned.
   The workers of the pool call App.ProcessFeed.

   A job is named by the number of the SubmitFeed call that brought it;
   0 is the empty locator, the zero value a receive from the closed
   feedRead yields. *)

JobIds == DOMAIN sources

EmptyLocator == 0

\* how ParseURLWithContext can end: with a feed, with an error, or with the
\* context's error when the source hangs past the deadline
AnySource == {"ok", "err", "timeout"}

\* the locators of a run in which the sources are mostly down: the first
\* may answer, the others fail
FailingSources == [k \in 1..(MaxFeeds + 2) |-> IF k = 1 THEN {"ok", "err"} ELSE {"err"}]

\* three locators of which the first hangs past the deadline
HangingSources == [k \in 1..3 |-> IF k = 1 THEN {"timeout"} ELSE {"ok", "err"}]

\* how the fetch of locator u can end; the empty locator always fails
FetchOutcomes(u) == IF u = EmptyLocator THEN {"err"} ELSE sources[u]

\* the articles of the feed behind locator u
FeedOf(u) == <<[Link |-> IF u % 2 = 1 THEN "l1" ELSE "l2", Published |-> 1]>>

\* NewApp: the channels, the store, the pool of its workers, go app.run()
AppStart(src, counts) ==
    /\ sources = src
    /\ StoreInit
    /\ variant = "gonews"
    /\ FanIdle
    /\ LibIdle
    /\ poolImpl = "gonews"
    /\ jobs = [buf |-> <<>>, closed |-> FALSE]
    /\ results = <<>>
    /\ \E k \in counts :
          worker = [w \in 1..k |-> [pc |-> "recv", url |-> ""]]
    /\ sub = <<>>
    /\ submitted = 0
    /\ feedRead = [buf |-> <<>>, closed |-> FALSE]
    /\ errChan = [buf |-> <<>>, closed |-> FALSE]
    /\ runPc = [pc |-> "select", url |-> 0]
    /\ closePc = "open"
    /\ saves = [k \in DOMAIN src |-> <<>>]
    /\ fed = 0
    /\ log = [k \in DOMAIN src |-> "none"]

\* SubmitFeed: a.feedRead <- url (main, before it serves)
SubmitFeed ==
    /\ ~Crashed
    /\ closePc = "open"
    /\ fed < Len(sources)
    /\ Len(feedRead.buf) < FeedCap
    /\ fed' = fed + 1
    /\ feedRead' = [feedRead EXCEPT !.buf = Append(@, fed + 1)]
    /\ UNCHANGED <<sources, errChan, runPc, closePc, saves, log>>
    /\ UNCHANGED <<storeVars, fanVars, poolVars, libVars>>

\* run, case feed := <-a.feedRead: a buffered locator, or the zero value
\* once the channel is closed and empty
RunRecvFeed ==
    /\ ~Crashed
    /\ runPc.pc = "select"
    /\ IF feedRead.buf # <<>>
       THEN /\ runPc' = [pc |-> "submit", url |-> Head(feedRead.buf)]
            /\ feedRead' = [feedRead EXCEPT !.buf = Tail(@)]
       ELSE /\ feedRead.closed
            /\ runPc' = [pc |-> "submit", url |-> EmptyLocator]
            /\ UNCHANGED feedRead
    /\ UNCHANGED <<sources, errChan, closePc, saves, fed, log>>
    /\ UNCHANGED <<storeVars, fanVars, poolVars, libVars>>

\* run, case err := <-a.errChan: the error is printed (a receive from the
\* closed and empty channel prints nil and changes nothing)
RunRecvErr ==
    /\ ~Crashed
    /\ runPc.pc = "select"
    /\ errChan.buf # <<>>
    /\ errChan' = [errChan EXCEPT !.buf = Tail(@)]
    /\ UNCHANGED <<sources, feedRead, runPc, closePc, saves, fed, log>>
    /\ UNCHANGED <<storeVars, fanVars, poolVars, libVars>>

\* run: a.workerPool.Submit(feed), the send on the job channel
RunSubmit ==
    /\ ~Crashed
    /\ runPc.pc = "submit"
    /\ IF jobs.closed
       THEN runPc' = [runPc EXCEPT !.pc = "panic"] /\ UNCHANGED jobs
       ELSE /\ Len(jobs.buf) < QueueCap
            /\ jobs' = [jobs EXCEPT !.buf = Append(@, runPc.url)]
            /\ runPc' = [pc |-> "select", url |-> 0]
    /\ UNCHANGED <<poolImpl, results, worker, sub, submitted>>
    /\ UNCHANGED <<sources, feedRead, errChan, closePc, saves, fed, log>>
    /\ UNCHANGED <<storeVars, fanVars, libVars>>

\* Close: close(a.feedRead)
CloseFeedRead ==
    /\ ~Crashed
    /\ closePc = "open"
    /\ closePc' = "feedRead"
    /\ feedRead' = [feedRead EXCEPT !.closed = TRUE]
    /\ UNCHANGED <<sources, errChan, runPc, saves, fed, log>>
    /\ UNCHANGED <<storeVars, fanVars, poolVars, libVars>>

\* Close: close(a.errChan)
CloseErrChan ==
    /\ ~Crashed
    /\ closePc = "feedRead"
    /\ closePc' = "errChan"
    /\ errChan' = [errChan EXCEPT !.closed = TRUE]
    /\ UNCHANGED <<sources, feedRead, runPc, saves, fed, log>>
    /\ UNCHANGED <<storeVars, fanVars, poolVars, libVars>>

\* Close: a.workerPool.Stop()
CloseStop ==
    /\ ~Crashed
    /\ closePc = "errChan"
    /\ closePc' = "closed"
    /\ jobs' = [jobs EXCEPT !.closed = TRUE]
    /\ UNCHANGED <<poolImpl, results, worker, sub, submitted>>
    /\ UNCHANGED <<sources, feedRead, errChan, runPc, saves, fed, log>>
    /\ UNCHANGED <<storeVars, fanVars, libVars>>

\* mutant: the fetch is not bound to a context and a hanging source is
\* waited for without end
ProcessFetch_NoTimeout(w) ==
    /\ ~Crashed
    /\ w \in DOMAIN worker
    /\ worker[w].pc = "busy"
    /\ \E out \in FetchOutcomes(worker[w].url) \ {"timeout"} :
         LET u == worker[w].url IN
         /\ log' = IF u \in JobIds THEN [log EXCEPT ![u] = out] ELSE log
         /\ IF out = "ok"
            THEN /\ worker' = [worker EXCEPT ![w] = [pc |-> "recv", url |-> ""]]
                 /\ saves' = IF u \in JobIds THEN [saves EXCEPT ![u] = FeedOf(u)] ELSE saves
            ELSE /\ worker' = [worker EXCEPT ![w].pc = "report"]
                 /\ UNCHANGED saves
    /\ UNCHANGED <<poolImpl, jobs, results, sub, submitted>>
    /\ UNCHANGED <<sources, feedRead, errChan, runPc, closePc, fed>>
    /\ UNCHANGED <<storeVars, fanVars, libVars>>

\* Worker.run under its 30 second context, ProcessFeed up to the outcome of
\* the fetch: FetchFeed returns, by the deadline at the latest.  On success
\* the articles go to a new channel of capacity 10 that a saveFeed
\* goroutine ranges over, the deferred close follows, and the worker is
\* back at its loop; on a failure the error is to be reported.
ProcessFetch(w) ==
    /\ ~Crashed
    /\ w \in DOMAIN worker
    /\ worker[w].pc = "busy"
    /\ \E out \in FetchOutcomes(worker[w].url) :
         LET u == worker[w].url IN
         /\ log' = IF u \in JobIds THEN [log EXCEPT ![u] = out] ELSE log
         /\ IF out = "ok"
            THEN /\ worker' = [worker EXCEPT ![w] = [pc |-> "recv", url |-> ""]]
                 /\ saves' = IF u \in JobIds THEN [saves EXCEPT ![u] = FeedOf(u)] ELSE saves
            ELSE /\ worker' = [worker EXCEPT ![w].pc = "report"]
                 /\ UNCHANGED saves
    /\ UNCHANGED <<poolImpl, jobs, results, sub, submitted>>
    /\ UNCHANGED <<sources, feedRead, errChan, runPc, closePc, fed>>
    /\ UNCHANGED <<storeVars, fanVars, libVars>>

\* ProcessFeed: a.errChan <- err; return nil, err
ProcessReport(w) ==
    /\ ~Crashed
    /\ w \in DOMAIN worker
    /\ worker[w].pc = "report"
    /\ IF errChan.closed
       THEN worker' = [worker EXCEPT ![w].pc = "panic"] /\ UNCHANGED errChan
       ELSE /\ Len(errChan.buf) < ErrCap
            /\ errChan' = [errChan EXCEPT !.buf = Append(@, worker[w].url)]
            /\ worker' = [worker EXCEPT ![w] = [pc |-> "recv", url |-> ""]]
    /\ UNCHANGED <<poolImpl, jobs, results, sub, submitted>>
    /\ UNCHANGED <<sources, feedRead, runPc, closePc, saves, fed, log>>
    /\ UNCHANGED <<storeVars, fanVars, libVars>>

\* saveFeed: a.store.AddArticle(article) for the next article of the channel
SaveFeed(k) ==
    /\ ~Crashed
    /\ k \in DOMAIN saves
    /\ saves[k] # <<>>
    /\ saves' = [saves EXCEPT ![k] = Tail(@)]
    /\ StoreWrite(AddArticleBody(variant, cache, heap, sorted, Head(saves[k]), result.arr),
                  {Head(saves[k]).Link}, 1)
    /\ UNCHANGED <<sources, feedRead, errChan, runPc, closePc, fed, log>>
    /\ UNCHANGED <<fanVars, poolVars, libVars>>

RunStep == RunRecvFeed \/ RunRecvErr \/ RunSubmit

AppWorkerStep(w) == WorkerRecv(w) \/ ProcessFetch(w) \/ ProcessReport(w)

AppNext ==
    \/ SubmitFeed
    \/ RunRecvFeed
    \/ RunRecvErr
    \/ RunSubmit
    \/ CloseFeedRead
    \/ CloseErrChan
    \/ CloseStop
    \/ \E w \in 1..NumWorkers : WorkerRecv(w)
    \/ \E w \in 1..NumWorkers : ProcessFetch(w)
    \/ \E w \in 1..NumWorkers : ProcessReport(w)
    \/ \E k \in 1..(MaxFeeds + 2) : SaveFeed(k)

SpecApp == AppStart([k \in 1..MaxFeeds |-> AnySource], 1..NumWorkers) /\ [][AppNext]_vars

\* the App started on sources that are mostly down
SpecAppFailing == AppStart(FailingSources, 1..NumWorkers) /\ [][AppNext]_vars

\* the goroutines of the dispatch are scheduled whenever they can take a
\* step: the loop of run and the worker; main (SubmitFeed, Close) is under
\* no obligation.  The App is started with a pool of one worker on three
\* sources of which the first hangs.
FairSpecAppHanging ==
    /\ AppStart(HangingSources, {1}) /\ [][AppNext]_vars
    /\ WF_vars(RunStep)
    /\ WF_vars(AppWorkerStep(1))

-----------------------------------------------------------------------------
(* Properties of the App and its pool *)

C12_SubmitAfterStop ==
    /\ [][\A s \in Submitters :
            (sub[s].pc = "sending" /\ jobs.closed /\ sub'[s] # sub[s])
                => (sub'[s].pc = "panic" /\ jobs' = jobs)]_vars
    /\ [](\A s \in Submitters :
            (sub[s].pc = "sending" /\ jobs.closed /\ ~Crashed)
                => ENABLED SubmitSend(s))

\* a Submit called after Stop, with room in the queue, has panicked and the
\* queue does not hold its job
C12_Witness ==
    \E s \in Submitters :
        /\ sub[s].pc = "panic"
        /\ sub[s].stopped
        /\ Len(jobs.buf) < QueueCap

\* C13: a worker whose fetch failed reports the failure and goes on to its
\* next job, however many sources fail: while the App is open, a worker
\* waiting to put its error on errChan is never stuck for good, that is,
\* its send can go through or a goroutine that makes room (the loop of run,
\* or a worker that takes a job off the queue the loop is waiting on) can
\* take a step.
C13_FailureIsolation ==
    \A w \in DOMAIN worker :
        (closePc = "open" /\ worker[w].pc = "report")
            => \/ ENABLED ProcessReport(w)
               \/ ENABLED RunStep
               \/ \E v \in DOMAIN worker : ENABLED AppWorkerStep(v)

C15_RunTerminates ==
    [][(/\ feedRead.closed /\ feedRead.buf = <<>>
        /\ errChan.closed /\ errChan.buf = <<>>
        /\ runPc.pc = "select")
          => runPc'.pc \in {"select", "stopped"}]_vars

-----------------------------------------------------------------------------
(* Properties of the sync handlers *)

FailureList == [j \in 1..Len(errs) |-> [err |-> errs[j].err]]

\* C17: when the collector returns, the failure list has one entry per
\* failed locator, and each entry carries the locator of the source that
\* failed and the underlying error.
C17_FailureEntries ==
    fanPc = "done" =>
        /\ Len(FailureList) = Cardinality(Failed)
        /\ \A j \in 1..Len(FailureList) :
              /\ "url" \in DOMAIN FailureList[j]
              /\ FailureList[j].url = urls[errs[j].src]
              /\ FailureList[j].err = Outcome(fanImpl, errs[j].src, urls[errs[j].src], "err").err

\* C18: once the caller's context is cancelled, every task still in flight
\* observes it -- its fetch ends as a failure, not with a batch -- and no
\* further article is added to the Store.
C18_Cancellation ==
    [][callerCtx = "cancelled" =>
          /\ \A i \in 1..Len(urls) :
                (task[i].out = "none" /\ task'[i].out # "none") => task'[i].out = "err"
          /\ sorted'.len = sorted.len]_vars

\* C19: in the chapter11 api store no two stored articles share a Link,
\* whatever AddArticles calls were made: an article whose Link is already
\* stored is dropped.
C19_ApiDedup == variant = "api" => NoDupLinks(StoreSeq)

\* C20: the Store only grows: no step of AddArticle, AddArticles, GetRecent
\* or Count, in any order, lowers the number of stored articles or makes a
\* stored Link disappear.
C20_OnlyGrows ==
    [][/\ sorted'.len >= sorted.len
       /\ SeqLinks(StoreSeq) \subseteq SeqLinks(StoreSeq')]_vars

\* the store has grown to its bound, past a reallocation of its array, and a
\* read has returned articles since
C20_Witness ==
    /\ CountOf = MaxLen
    /\ last.op = "GetRecent" /\ last.outcome = "ok"
    /\ result.len >= 1

\* C21: insert-if-absent in the chapter09 and go-news stores: an AddArticle or
\* AddArticles whose Links are all stored already leaves the stored sequence
\* as it was, and no step replaces a stored article, so the article kept for
\* a Link is the first one inserted.
C21_InsertIfAbsent ==
    [][(variant \in {"ch09", "gonews"}) =>
          /\ (last'.op = "Add" /\ inserted' = inserted) => StoreSeq' = StoreSeq
          /\ \A i \in 1..Len(StoreSeq) :
                \E j \in 1..Len(StoreSeq') : StoreSeq'[j] = StoreSeq[i]]_vars

\* a full batch has been offered to a store of two articles or more and
\* every article of it was dropped
C21_Witness ==
    /\ variant \in {"ch09", "gonews"}
    /\ last.op = "Add" /\ last.n = MaxBatch
    /\ CountOf >= 2

-----------------------------------------------------------------------------
(* Calculator: Calculate, Store, Recall.  One caller; the type has no lock
   and the program calls it from one goroutine. *)

\* width of int, scaled down from 64 bits
IntBits == 4

RECURSIVE Pow2(_)
Pow2(n) == IF n = 0 THEN 1 ELSE 2 * Pow2(n - 1)

MinInt == 0 - Pow2(IntBits - 1)

\* the value an int holds after an operation whose exact result is x
Wrap(x) == ((x - MinInt) % Pow2(IntBits)) + MinInt

Abs(x) == IF x < 0 THEN 0 - x ELSE x

\* a / b on ints, b # 0: the quotient truncated toward zero
Quot(a, b) ==
    IF (a < 0) = (b < 0) THEN Abs(a) \div Abs(b) ELSE 0 - (Abs(a) \div Abs(b))

\* the operands callers pass
Operands == {MinInt, 0 - 1, 0, 2}

\* mutant: the error of an earlier call is not reset
CalculateBody_NoReset(c, operation, a, b) ==
    IF operation = "div" /\ b = 0
    THEN [c |-> [c EXCEPT !.err = "ErrDivByZero", !.result = 0],
          val |-> 0, err |-> "ErrDivByZero"]
    ELSE IF operation = "add"
    THEN [c |-> [c EXCEPT !.result = Wrap(a + b)], val |-> Wrap(a + b), err |-> "nil"]
    ELSE IF operation = "sub"
    THEN [c |-> [c EXCEPT !.result = Wrap(a - b)], val |-> Wrap(a - b), err |-> "nil"]
    ELSE IF operation = "mul"
    THEN [c |-> [c EXCEPT !.result = Wrap(a * b)], val |-> Wrap(a * b), err |-> "nil"]
    ELSE IF operation = "div"
    THEN [c |-> [c EXCEPT !.result = Wrap(Quot(a, b))], val |-> Wrap(Quot(a, b)), err |-> "nil"]
    ELSE [c |-> [c EXCEPT !.err = "ErrUnknownOperation"],
          val |-> 0, err |-> "ErrUnknownOperation"]

\* mutant: an unknown operation returns the result field as it stands
CalculateBody_StaleResult(c, operation, a, b) ==
    LET c1 == [c EXCEPT !.err = "nil"] IN
    IF operation = "div" /\ b = 0
    THEN [c |-> [c EXCEPT !.err = "ErrDivByZero", !.result = 0],
          val |-> 0, err |-> "ErrDivByZero"]
    ELSE IF operation = "add"
    THEN [c |-> [c1 EXCEPT !.result = Wrap(a + b)], val |-> Wrap(a + b), err |-> "nil"]
    ELSE IF operation = "sub"
    THEN [c |-> [c1 EXCEPT !.result = Wrap(a - b)], val |-> Wrap(a - b), err |-> "nil"]
    ELSE IF operation = "mul"
    THEN [c |-> [c1 EXCEPT !.result = Wrap(a * b)], val |-> Wrap(a * b), err |-> "nil"]
    ELSE IF operation = "div"
    THEN [c |-> [c1 EXCEPT !.result = Wrap(Quot(a, b))], val |-> Wrap(Quot(a, b)), err |-> "nil"]
    ELSE [c |-> [c1 EXCEPT !.err = "ErrUnknownOperation"],
          val |-> c1.result, err |-> "ErrUnknownOperation"]

\* Calculate: the division-by-zero test first; then c.err = nil and the
\* switch, whose default sets the error and leaves c.result as it was
CalculateBody(c, operation, a, b) ==
    LET c1 == [c EXCEPT !.err = "nil"] IN
    IF operation = "div" /\ b = 0
    THEN [c |-> [c EXCEPT !.err = "ErrDivByZero", !.result = 0],
          val |-> 0, err |-> "ErrDivByZero"]
    ELSE IF operation = "add"
    THEN [c |-> [c1 EXCEPT !.result = Wrap(a + b)], val |-> Wrap(a + b), err |-> "nil"]
    ELSE IF operation = "sub"
    THEN [c |-> [c1 EXCEPT !.result = Wrap(a - b)], val |-> Wrap(a - b), err |-> "nil"]
    ELSE IF operation = "mul"
    THEN [c |-> [c1 EXCEPT !.result = Wrap(a * b)], val |-> Wrap(a * b), err |-> "nil"]
    ELSE IF operation = "div"
    THEN [c |-> [c1 EXCEPT !.result = Wrap(Quot(a, b))], val |-> Wrap(Quot(a, b)), err |-> "nil"]
    ELSE [c |-> [c1 EXCEPT !.err = "ErrUnknownOperation"],
          val |-> 0, err |-> "ErrUnknownOperation"]

Calculate(operation, a, b) ==
    LET r == CalculateBody(calc, operation, a, b) IN
    /\ calc' = r.c
    /\ calcRet' = [op |-> "Calculate", name |-> operation, a |-> a, b |-> b,
                   val |-> r.val, err |-> r.err]
    /\ seen' = [ok |-> r.err = "nil", val |-> r.val]
    /\ UNCHANGED <<expectMem, kv, kvRet, ctx, fc, eg>>
    /\ UNCHANGED <<storeVars, fanVars, poolVars, appVars>>

\* Store: if c.err != nil { return }; c.mem = c.result
CalcStore ==
    /\ calc' = IF calc.err # "nil" THEN calc ELSE [calc EXCEPT !.mem = calc.result]
    /\ calcRet' = [op |-> "Store", name |-> "", a |-> 0, b |-> 0, val |-> 0, err |-> "nil"]
    /\ expectMem' = IF seen.ok THEN seen.val ELSE expectMem
    /\ UNCHANGED <<seen, kv, kvRet, ctx, fc, eg>>
    /\ UNCHANGED <<storeVars, fanVars, poolVars, appVars>>

\* Recall: return c.mem
Recall ==
    /\ calcRet' = [op |-> "Recall", name |-> "", a |-> 0, b |-> 0, val |-> calc.mem, err |-> "nil"]
    /\ UNCHANGED <<calc, seen, expectMem, kv, kvRet, ctx, fc, eg>>
    /\ UNCHANGED <<storeVars, fanVars, poolVars, appVars>>

CalcNext ==
    \/ \E operation \in {"add", "sub", "mul", "div", "", "ADD"}, a \in Operands, b \in Operands :
          Calculate(operation, a, b)
    \/ CalcStore
    \/ Recall

\* c := NewCalculator(), store := NewKVStore(); nothing else is in use
LibInit == Init /\ variant = "ch09"

SpecCalc == LibInit /\ [][CalcNext]_vars

-----------------------------------------------------------------------------
(* Properties of the Calculator *)

\* C22: Store never copies the result of a failed Calculate into memory:
\* the memory is 0 until a Store finds that the most recent Calculate
\* succeeded, and from then on it is the result that Calculate returned at
\* the last such Store; a Recall returns it.  An earlier error does not stop
\* a later successful Calculate from being stored.
C22_Memory ==
    /\ calc.mem = expectMem
    /\ calcRet.op = "Recall" => calcRet.val = expectMem

\* Store has been called after a failed Calculate while the memory held a
\* nonzero result stored earlier
C22_Witness ==
    /\ calcRet.op = "Store"
    /\ ~seen.ok
    /\ calc.mem # 0

\* what Calculate is to return for a valid call: the value of the int
\* operation, that is the exact result brought into the range of int; for
\* div the exact result is the quotient truncated toward zero
ExactResult(name, a, b) ==
    IF name = "add" THEN a + b
    ELSE IF name = "sub" THEN a - b
    ELSE IF name = "mul" THEN a * b
    ELSE CHOOSE q \in (0 - Abs(a))..Abs(a) :
            \E r \in (0 - Abs(b))..Abs(b) :
               /\ a = q * b + r
               /\ Abs(r) < Abs(b)
               /\ (r = 0 \/ (r < 0) = (a < 0))

IntValue(x) == CHOOSE v \in MinInt..(0 - MinInt - 1) : (v - x) % Pow2(IntBits) = 0

\* C23: Calculate("div", a, 0) returns 0 with ErrDivByZero, Calculate with a
\* name other than add, sub, mul, div returns 0 with ErrUnknownOperation, and
\* a valid call returns the arithmetic result with a nil error.
C23_Outcomes ==
    calcRet.op = "Calculate" =>
        IF calcRet.name = "div" /\ calcRet.b = 0
        THEN calcRet.val = 0 /\ calcRet.err = "ErrDivByZero"
        ELSE IF calcRet.name \notin {"add", "sub", "mul", "div"}
        THEN calcRet.val = 0 /\ calcRet.err = "ErrUnknownOperation"
        ELSE /\ calcRet.err = "nil"
             /\ calcRet.val = IntValue(ExactResult(calcRet.name, calcRet.a, calcRet.b))

\* an unknown operation was called on a calculator whose result field holds
\* a nonzero value
C23_Witness ==
    /\ calcRet.op = "Calculate"
    /\ calcRet.err = "ErrUnknownOperation"
    /\ calc.result # 0

-----------------------------------------------------------------------------
(* KVStore (chapter07): Put, Get, Delete, ForcePut, BulkGet.  The type has
   no lock and the program calls it from one goroutine. *)

\* longest list of keys handed to BulkGet
MaxKeys == 3

Keys == {"k1", "k2", "k3"}

Vals == {"v1", "v2"}

KvCall(op, keys, vals, err, missing) ==
    [op |-> op, keys |-> keys, vals |-> vals, err |-> err, missing |-> missing]

\* m[key] = val
MapSet(m, key, val) == [k \in DOMAIN m \cup {key} |-> IF k = key THEN val ELSE m[k]]

\* mutant: Put stores the value whether or not the key exists
PutBody_Overwrite(m, key, val) ==
    IF key \in DOMAIN m THEN [m |-> MapSet(m, key, val), err |-> "ErrConflict"]
    ELSE [m |-> MapSet(m, key, val), err |-> "nil"]

\* Put: ErrConflict when the key exists, else store.m[key] = val
PutBody(m, key, val) ==
    IF key \in DOMAIN m THEN [m |-> m, err |-> "ErrConflict"]
    ELSE [m |-> MapSet(m, key, val), err |-> "nil"]

\* Get: the value and nil, or "" and ErrNotExist
GetBody(m, key) ==
    IF key \notin DOMAIN m THEN [val |-> "", err |-> "ErrNotExist"]
    ELSE [val |-> m[key], err |-> "nil"]

\* Delete: ErrNotExist when the key is absent, else delete(store.m, key)
DeleteBody(m, key) ==
    IF key \notin DOMAIN m THEN [m |-> m, err |-> "ErrNotExist"]
    ELSE [m |-> [k \in DOMAIN m \ {key} |-> m[k]], err |-> "nil"]

\* ForcePut: Put; on ErrConflict Delete and Put again, wrapping what fails
ForcePutBody(m, key, val) ==
    LET p == PutBody(m, key, val) IN
    IF p.err = "nil" THEN p
    ELSE IF p.err = "ErrConflict"
    THEN LET del == DeleteBody(p.m, key) IN
         IF del.err # "nil" THEN [m |-> del.m, err |-> "unable to delete during force put"]
         ELSE LET q == PutBody(del.m, key, val) IN
              IF q.err # "nil" THEN [m |-> q.m, err |-> "unable to put during force put"]
              ELSE q
    ELSE [m |-> p.m, err |-> "unable to force put"]

RECURSIVE BulkGetLoop_StopAtMissing(_, _, _, _)
RECURSIVE BulkGetLoop(_, _, _, _)
\* mutant: the loop ends at the first missing key
BulkGetLoop_StopAtMissing(m, keys, res, errb) ==
    IF keys = <<>>
    THEN [vals |-> res, err |-> IF Len(errb) > 0 THEN "bulkGetError" ELSE "nil", missing |-> errb]
    ELSE LET g == GetBody(m, Head(keys)) IN
         IF g.err = "ErrNotExist"
         THEN [vals |-> res, err |-> "bulkGetError", missing |-> Append(errb, Head(keys))]
         ELSE IF g.err # "nil"
         THEN [vals |-> <<>>, err |-> "unexpected error during bulk get", missing |-> <<>>]
         ELSE BulkGetLoop_StopAtMissing(m, Tail(keys), Append(res, g.val), errb)

\* BulkGet: for each key, Get; a missing key goes to errb and the loop
\* continues, a value goes to res; at the end res with errb when errb is not
\* empty, else res with nil
BulkGetLoop(m, keys, res, errb) ==
    IF keys = <<>>
    THEN [vals |-> res, err |-> IF Len(errb) > 0 THEN "bulkGetError" ELSE "nil", missing |-> errb]
    ELSE LET g == GetBody(m, Head(keys)) IN
         IF g.err = "ErrNotExist"
         THEN BulkGetLoop(m, Tail(keys), res, Append(errb, Head(keys)))
         ELSE IF g.err # "nil"
         THEN [vals |-> <<>>, err |-> "unexpected error during bulk get", missing |-> <<>>]
         ELSE BulkGetLoop(m, Tail(keys), Append(res, g.val), errb)

KvFrame ==
    /\ UNCHANGED <<calc, calcRet, seen, expectMem, ctx, fc, eg>>
    /\ UNCHANGED <<storeVars, fanVars, poolVars, appVars>>

Put(key, val) ==
    LET r == PutBody(kv, key, val) IN
    /\ kv' = r.m
    /\ kvRet' = KvCall("Put", <<key>>, <<val>>, r.err, <<>>)
    /\ KvFrame

Get(key) ==
    LET r == GetBody(kv, key) IN
    /\ kvRet' = KvCall("Get", <<key>>, <<r.val>>, r.err, <<>>)
    /\ UNCHANGED kv
    /\ KvFrame

Delete(key) ==
    LET r == DeleteBody(kv, key) IN
    /\ kv' = r.m
    /\ kvRet' = KvCall("Delete", <<key>>, <<>>, r.err, <<>>)
    /\ KvFrame

ForcePut(key, val) ==
    LET r == ForcePutBody(kv, key, val) IN
    /\ kv' = r.m
    /\ kvRet' = KvCall("ForcePut", <<key>>, <<val>>, r.err, <<>>)
    /\ KvFrame

BulkGet(keys) ==
    LET r == BulkGetLoop(kv, keys, <<>>, <<>>) IN
    /\ kvRet' = KvCall("BulkGet", keys, r.vals, r.err, r.missing)
    /\ UNCHANGED kv
    /\ KvFrame

KvNext ==
    \/ \E key \in Keys, val \in Vals : Put(key, val)
    \/ \E key \in Keys : Get(key)
    \/ \E key \in Keys : Delete(key)
    \/ \E key \in Keys, val \in Vals : ForcePut(key, val)
    \/ \E keys \in UNION {[1..n -> Keys] : n \in 0..MaxKeys} : BulkGet(keys)

SpecKV == LibInit /\ [][KvNext]_vars

-----------------------------------------------------------------------------
(* Properties of the KVStore *)

\* C24: Put on a key that exists returns ErrConflict and leaves the stored
\* value and every other key as they were; Put on an absent key returns nil,
\* changes no other key, and a Get of the key then returns the value put.
C24_Put ==
    [][kvRet'.op = "Put" =>
          LET key == kvRet'.keys[1]
              val == kvRet'.vals[1] IN
          IF key \in DOMAIN kv
          THEN kvRet'.err = "ErrConflict" /\ kv' = kv
          ELSE /\ kvRet'.err = "nil"
               /\ DOMAIN kv' = DOMAIN kv \cup {key}
               /\ \A k \in DOMAIN kv : kv'[k] = kv[k]
               /\ GetBody(kv', key) = [val |-> val, err |-> "nil"]]_vars

\* Put has been refused on a key that holds another value, in a store with a
\* second key
C24_Witness ==
    /\ kvRet.op = "Put" /\ kvRet.err = "ErrConflict"
    /\ kv[kvRet.keys[1]] # kvRet.vals[1]
    /\ Cardinality(DOMAIN kv) >= 2

\* C25: BulkGet returns the values of the requested keys that exist, in
\* request order; with a key missing it returns them together with a
\* bulkGetError that lists exactly the missing keys in request order, with
\* none missing the error is nil; the store is unchanged.
C25_BulkGet ==
    [][kvRet'.op = "BulkGet" =>
          LET keys == kvRet'.keys
              here == SelectSeq(keys, LAMBDA k : k \in DOMAIN kv)
              gone == SelectSeq(keys, LAMBDA k : k \notin DOMAIN kv) IN
          /\ kv' = kv
          /\ kvRet'.vals = [i \in 1..Len(here) |-> kv[here[i]]]
          /\ IF gone = <<>> THEN kvRet'.err = "nil"
             ELSE kvRet'.err = "bulkGetError" /\ kvRet'.missing = gone]_vars

\* a request whose first key is missing and whose last key exists
C25_Witness ==
    /\ kvRet.op = "BulkGet"
    /\ Len(kvRet.keys) >= 2
    /\ kvRet.keys[1] \notin DOMAIN kv
    /\ kvRet.keys[Len(kvRet.keys)] \in DOMAIN kv
    /\ kvRet.err = "bulkGetError"

-----------------------------------------------------------------------------
(* Further properties of the stores *)

\* C26: in every state outside the write lock of the chapter09 and go-news
\* stores the cache and the sequence agree: a Link is a key of the cache if
\* and only if exactly one stored article carries it, and the two have the
\* same size.
C26_Consistent ==
    variant \in {"ch09", "gonews"} =>
        /\ \A l \in Links :
              l \in cache <=> Cardinality({i \in 1..Len(StoreSeq) : StoreSeq[i].Link = l}) = 1
        /\ cache \subseteq Links
        /\ Cardinality(cache) = sorted.len

\* a write has returned and left a store of two articles or more in an array
\* with room to spare
C26_Witness ==
    /\ variant \in {"ch09", "gonews"}
    /\ last.op = "Add"
    /\ sorted.len >= 2
    /\ sorted.cap > sorted.len

-----------------------------------------------------------------------------
(* Further properties of the App and the pools *)

\* C27: the dispatch loop never stalls: while the App is open and a locator
\* or an error is pending on its channels, the loop is never blocked for
\* good, that is, the loop can take a step or a worker can take one that
\* leads to room in the job queue the loop is waiting on.
C27_LoopNeverStalls ==
    (/\ closePc = "open"
     /\ runPc.pc = "submit"
     /\ (feedRead.buf # <<>> \/ errChan.buf # <<>>))
        => \/ ENABLED RunStep
           \/ \E v \in DOMAIN worker : ENABLED AppWorkerStep(v)

\* the workers, and goroutines started by them, that are in a fetch
InProgress == {w \in DOMAIN worker : worker[w].pc = "busy"}

\* C28: at every moment at most workerCount fetch/ProcessFeed calls started
\* by pool workers are in progress, however many jobs have been submitted.
C28_BoundedConcurrency == Cardinality(InProgress) <= NumWorkers

\* every worker of a go-news pool is in ProcessFeed, the queue is full and a
\* further Submit is waiting
C28_Witness ==
    /\ poolImpl = "gonews"
    /\ InProgress = Workers
    /\ QueueFull
    /\ \E s \in Submitters : sub[s].pc = "sending"

\* the jobs workers hold
Holding(w) == worker[w].pc \in {"busy", "sendResult"}

\* C29: every locator accepted by Submit is claimed by exactly one worker and
\* processed once: the queue grows only by the locator of a Submit and
\* shrinks only at its head, by a step in which exactly one idle worker
\* takes that locator; a worker starts on a job by no other step, keeps it
\* until it has processed it, and then holds none.
C29_ExactlyOnce ==
    [][/\ Len(jobs'.buf) > Len(jobs.buf) =>
             \E s \in Submitters :
                /\ sub[s].pc = "sending" /\ sub'[s].pc = "idle"
                /\ jobs'.buf = Append(jobs.buf, sub[s].url)
       /\ Len(jobs'.buf) <= Len(jobs.buf) =>
             \/ jobs'.buf = jobs.buf
             \/ /\ jobs'.buf = Tail(jobs.buf)
                /\ Cardinality({w \in Workers :
                       /\ worker[w].pc = "recv"
                       /\ worker'[w] = [pc |-> "busy", url |-> Head(jobs.buf)]}) = 1
       /\ \A w \in Workers :
             /\ (~Holding(w) /\ Holding(w)') =>
                   /\ jobs.buf # <<>> /\ jobs'.buf = Tail(jobs.buf)
                   /\ worker'[w] = [pc |-> "busy", url |-> Head(jobs.buf)]
                   /\ \A v \in Workers \ {w} : worker'[v] = worker[v]
             /\ (Holding(w) /\ Holding(w)') => worker'[w].url = worker[w].url
             /\ (Holding(w) /\ ~Holding(w)') => worker'[w] = [pc |-> "recv", url |-> ""]
      ]_vars

\* two workers hold different locators while a third job waits in the queue
C29_Witness ==
    /\ jobs.buf # <<>>
    /\ \E v, w \in Workers :
          /\ Holding(v) /\ Holding(w)
          /\ worker[v].url # worker[w].url

-----------------------------------------------------------------------------
(* Further properties of the fan-out *)

\* C30: the outcome channels of the fan-out are sized to the number of
\* locators: the buffered outcomes never exceed the capacity, and whenever a
\* task is about to send its outcome the channel it sends on has a free
\* slot, whatever the collector has read so far.
C30_NoTaskBlocks ==
    /\ Len(resultsChan.buf) <= Len(urls)
    /\ Len(errorsChan.buf) <= Len(urls)
    /\ \A i \in 1..Len(urls) :
          task[i].pc = "fetch" =>
             /\ Len(resultsChan.buf) < ChanCap
             /\ fanImpl = "ch09" => Len(errorsChan.buf) < ChanCap

\* every task of two or more has sent its outcome on one channel and the
\* collector has read none of them
C30_Witness ==
    /\ Len(urls) >= 2
    /\ Len(resultsChan.buf) = Len(urls)
    /\ feeds = <<>> /\ errs = <<>> /\ articlesOut = <<>>

-----------------------------------------------------------------------------
(* Further properties of the App's dispatch and shutdown *)

\* C33: the dispatch loop forwards to the pool only locators that came in
\* through SubmitFeed, each once: what it is about to forward and what is in
\* the job queue are locators SubmitFeed accepted, never the empty locator,
\* and no locator is there twice.
C33_ForwardsOnlySubmitted ==
    /\ runPc.pc = "submit" => runPc.url \in 1..fed
    /\ \A i \in 1..Len(jobs.buf) : jobs.buf[i] \in 1..fed
    /\ \A i, j \in 1..Len(jobs.buf) : i # j => jobs.buf[i] # jobs.buf[j]
    /\ \A i \in 1..Len(jobs.buf) : runPc.pc = "submit" => jobs.buf[i] # runPc.url

\* C34: Close never makes a goroutine send on a closed channel: neither the
\* loop of run, forwarding to the stopped pool, nor a worker reporting a
\* fetch error on errChan panics.
C34_NoSendOnClosed ==
    /\ runPc.pc # "panic"
    /\ \A w \in DOMAIN worker : worker[w].pc # "panic"

-----------------------------------------------------------------------------
(* Closing of the outcome channels of the fan-out *)

\* C35: in both fan-out implementations no task sends on an outcome channel
\* after it has been closed, and each outcome channel is closed once: no
\* task panics in its send, a closed channel means every task is past its
\* send and its wg.Done(), and the closer reaches a close statement only
\* while the channel it closes is still open.
C35_CloseAfterSends ==
    /\ \A i \in 1..Len(urls) : task[i].pc # "panic"
    /\ (resultsChan.closed \/ errorsChan.closed) =>
          \A i \in 1..Len(urls) : task[i].pc = "done"
    /\ closer = "closeResults" => ~resultsChan.closed /\ ~errorsChan.closed
    /\ closer = "closeErrors" => resultsChan.closed /\ ~errorsChan.closed
    /\ errorsChan.closed => fanImpl = "ch09" /\ closer = "done"

C35_Witness ==
    /\ fanImpl = "ch09"
    /\ Len(urls) = MaxUrls
    /\ resultsChan.closed
    /\ errorsChan.closed
    /\ \E i \in 1..Len(urls) : task[i].out = "err"
    /\ \E i \in 1..Len(urls) : task[i].out = "ok"

\* C37: a chapter09 worker that has fetched a feed successfully returns to
\* receive its next job whether or not anything reads the results channel:
\* while the pool runs, a worker at its send w.results <- feed can complete
\* it without a reader, the results buffer has room for it.
C37_WorkerReturns ==
    \A w \in DOMAIN worker :
       (poolImpl = "ch09" /\ ~Crashed /\ worker[w].pc = "sendResult") =>
           Len(results) < ResultsCap

-----------------------------------------------------------------------------
(* Batch insert against single inserts *)

RECURSIVE EachInOrder(_, _, _, _, _, _)
\* AddArticle called on each element of a batch in order
EachInOrder(v, c, h, s, batch, keep) ==
    IF batch = <<>> THEN [cache |-> c, heap |-> h, s |-> s, dirty |-> FALSE]
    ELSE LET r == AddArticleBody(v, c, h, s, Head(batch), keep)
         IN EachInOrder(v, r.cache, r.heap, r.s, Tail(batch), keep)

\* C38: batch and single insert agree: from every store state and for every
\* batch, AddArticles(batch) leaves the same set of Links, the same stored
\* article for each Link and the same Count as AddArticle called on each
\* element of the batch in order.
C38_BatchAgrees ==
    variant \in {"ch09", "gonews"} =>
        \A b \in BatchesOf(variant) :
           LET x == AddArticlesBody(variant, cache, heap, sorted, b, result.arr)
               y == EachInOrder(variant, cache, heap, sorted, b, result.arr)
               xs == View(x.heap, x.s)
               ys == View(y.heap, y.s)
           IN /\ x.cache = y.cache
              /\ {xs[i] : i \in 1..Len(xs)} = {ys[i] : i \in 1..Len(ys)}
              /\ x.s.len = y.s.len

\* a store that holds an article after a write, and a batch of two articles:
\* another version of a stored Link, which is dropped, and a new Link, which
\* is added
C38_Witness ==
    /\ variant \in {"ch09", "gonews"}
    /\ last.op = "Add"
    /\ sorted.len >= 1
    /\ \E b \in BatchesOf(variant) :
          /\ Len(b) = 2
          /\ b[1].Link \in cache
          /\ \A i \in 1..Len(StoreSeq) : StoreSeq[i] # b[1]
          /\ b[2].Link \notin cache
          /\ AddArticlesBody(variant, cache, heap, sorted, b, result.arr).s.len = sorted.len + 1

-----------------------------------------------------------------------------
(* chapter09 fetchFeedWithContext (README.md).  demonstrateContext makes
   the calls from goroutines that share one context, which a timer or a call
   of cancel ends at any moment.  The call checks the context with a select
   that has a default, starts the fetch in a goroutine that closes done when
   it has the outcome, and then selects on done and ctx.Done().  A select
   that finds no case ready parks the goroutine, and the first of the two
   events resolves it; a select that finds both cases ready picks either. *)

MaxCalls == 2

\* var eg SimpleErrGroup: the zero value
ZeroGroup == [wg |-> 0, err |-> 0, fn |-> <<>>, pc |-> "idle", ret |-> 0, order |-> <<>>]

\* ctx.Err() of an ended context
CtxErr(c) == IF c = "canceled" THEN "context.Canceled" ELSE "context.DeadlineExceeded"

\* what the case <-done returns: the fetch error or the feed
DoneRet(out) == IF out = "err" THEN "fetchErr" ELSE "feed"

\* the goroutines of demonstrateContext before they call; atCall and
\* ctxFirst are history: the context at the call, and whether the context
\* ended while the fetch of this call had not completed
CtxInit ==
    /\ StoreIdle
    /\ FanIdle
    /\ PoolIdle
    /\ AppIdle
    /\ CalcKvIdle
    /\ eg = ZeroGroup
    /\ ctx \in {"live", "canceled", "deadline"}
    /\ fc \in [1..MaxCalls ->
                 {[pc |-> "new", url |-> u, fetch |-> "none", out |-> "none", ret |-> "none",
                   atCall |-> "none", ctxFirst |-> ctx # "live"] : u \in Locators}]

CtxFrame ==
    /\ UNCHANGED <<calc, calcRet, seen, expectMem, kv, kvRet, eg>>
    /\ UNCHANGED <<storeVars, fanVars, poolVars, appVars>>

\* fetchFeedWithContext(ctx, url) is called
FcCall(i) ==
    /\ fc[i].pc = "new"
    /\ fc' = [fc EXCEPT ![i].pc = "check", ![i].atCall = ctx]
    /\ UNCHANGED ctx
    /\ CtxFrame

\* select { case <-ctx.Done(): return Feed{}, ctx.Err(); default: }
FcCheck(i) ==
    /\ fc[i].pc = "check"
    /\ fc' = IF ctx # "live"
             THEN [fc EXCEPT ![i].pc = "returned", ![i].ret = CtxErr(ctx)]
             ELSE [fc EXCEPT ![i].pc = "spawn"]
    /\ UNCHANGED ctx
    /\ CtxFrame

\* done := make(chan struct{}); go func() { feed, err = fetchFeedSimulated(url); close(done) }()
FcSpawn(i) ==
    /\ fc[i].pc = "spawn"
    /\ fc' = [fc EXCEPT ![i].pc = "select", ![i].fetch = "running"]
    /\ UNCHANGED ctx
    /\ CtxFrame

\* the goroutine of the fetch: fetchFeedSimulated returns and done is
\* closed; a caller parked in the select takes the case <-done
FcFetchDone(i) ==
    /\ fc[i].fetch = "running"
    /\ \E out \in Outcomes("ch09", fc[i].url) :
          fc' = IF fc[i].pc = "parked"
                THEN [fc EXCEPT ![i].fetch = "done", ![i].out = out,
                                ![i].pc = "returned", ![i].ret = DoneRet(out)]
                ELSE [fc EXCEPT ![i].fetch = "done", ![i].out = out]
    /\ UNCHANGED ctx
    /\ CtxFrame

\* select { case <-done: ...; case <-ctx.Done(): return Feed{}, ctx.Err() }
FcSelect(i) ==
    /\ fc[i].pc = "select"
    /\ \/ /\ fc[i].fetch = "done"
          /\ fc' = [fc EXCEPT ![i].pc = "returned", ![i].ret = DoneRet(fc[i].out)]
       \/ /\ ctx # "live"
          /\ fc' = [fc EXCEPT ![i].pc = "returned", ![i].ret = CtxErr(ctx)]
       \/ /\ fc[i].fetch # "done"
          /\ ctx = "live"
          /\ fc' = [fc EXCEPT ![i].pc = "parked"]
    /\ UNCHANGED ctx
    /\ CtxFrame

\* the timeout expires or cancel() is called: ctx.Done() is closed, and
\* every caller parked in the select takes the case <-ctx.Done()
FcCtxEnd(kind) ==
    /\ ctx = "live"
    /\ ctx' = kind
    /\ fc' = [i \in 1..MaxCalls |->
                LET c == [fc[i] EXCEPT !.ctxFirst = fc[i].fetch # "done"]
                IN IF c.pc = "parked"
                   THEN [c EXCEPT !.pc = "returned", !.ret = CtxErr(kind)]
                   ELSE c]
    /\ CtxFrame

CtxNext ==
    \/ \E i \in 1..MaxCalls : FcCall(i)
    \/ \E i \in 1..MaxCalls : FcCheck(i)
    \/ \E i \in 1..MaxCalls : FcSpawn(i)
    \/ \E i \in 1..MaxCalls : FcFetchDone(i)
    \/ \E i \in 1..MaxCalls : FcSelect(i)
    \/ \E kind \in {"canceled", "deadline"} : FcCtxEnd(kind)

SpecCtx == CtxInit /\ [][CtxNext]_vars

\* C31: cancellation is a distinguished outcome of fetchFeedWithContext: a
\* call made with a context that has ended starts no fetch and returns the
\* context's error, and a call whose context ended before its fetch had
\* completed returns the context's error, never a Feed or a fetch error.
C31_CancellationWins ==
    \A i \in 1..MaxCalls :
       /\ (fc[i].atCall \in {"canceled", "deadline"}) =>
             /\ fc[i].fetch = "none"
             /\ fc[i].pc = "returned" => fc[i].ret = CtxErr(fc[i].atCall)
       /\ (fc[i].pc = "returned" /\ fc[i].ctxFirst) => fc[i].ret = CtxErr(ctx)

-----------------------------------------------------------------------------
(* chapter09 SimpleErrGroup (README.md).  A goroutine starts functions with
   Go and then calls Wait, as demonstrateErrGroup does.  An error is the
   index of the function that returned it, 0 is nil; eg.order is history:
   the failing functions in the order in which they took the mutex. *)

\* var eg SimpleErrGroup and the functions that are going to be started
EgInit ==
    /\ StoreIdle
    /\ FanIdle
    /\ PoolIdle
    /\ AppIdle
    /\ CalcKvIdle
    /\ ctx = "live"
    /\ fc = <<>>
    /\ \E k \in 0..MaxUrls :
          eg = [ZeroGroup EXCEPT !.fn = [i \in 1..k |-> [pc |-> "new", out |-> "none"]],
                                 !.pc = "launch"]

EgFrame ==
    /\ UNCHANGED <<calc, calcRet, seen, expectMem, kv, kvRet, ctx, fc>>
    /\ UNCHANGED <<storeVars, fanVars, poolVars, appVars>>

\* Go(f): g.wg.Add(1); go func() {...}()
EgGo(i) ==
    /\ eg.pc = "launch"
    /\ i \in 1..Len(eg.fn)
    /\ eg.fn[i].pc = "new"
    /\ \A j \in 1..(i - 1) : eg.fn[j].pc # "new"
    /\ eg' = [eg EXCEPT !.wg = @ + 1, !.fn[i].pc = "running"]
    /\ EgFrame

\* err := f(): the function returns nil or its error
EgReturn(i, out) ==
    /\ i \in 1..Len(eg.fn)
    /\ eg.fn[i].pc = "running"
    /\ eg' = [eg EXCEPT !.fn[i] = [pc |-> IF out = "err" THEN "lock" ELSE "deferred",
                                   out |-> out]]
    /\ EgFrame

\* mutant: every error is stored, the first one is overwritten
EgRecord_Overwrite(i) ==
    /\ i \in 1..Len(eg.fn)
    /\ eg.fn[i].pc = "lock"
    /\ eg' = [eg EXCEPT !.err = i,
                        !.order = Append(@, i),
                        !.fn[i].pc = "deferred"]
    /\ EgFrame

\* g.mu.Lock(); if g.err == nil { g.err = err }; g.mu.Unlock()
EgRecord(i) ==
    /\ i \in 1..Len(eg.fn)
    /\ eg.fn[i].pc = "lock"
    /\ eg' = [eg EXCEPT !.err = IF @ = 0 THEN i ELSE @,
                        !.order = Append(@, i),
                        !.fn[i].pc = "deferred"]
    /\ EgFrame

\* the deferred g.wg.Done()
EgDone(i) ==
    /\ i \in 1..Len(eg.fn)
    /\ eg.fn[i].pc = "deferred"
    /\ eg' = [eg EXCEPT !.wg = @ - 1, !.fn[i].pc = "done"]
    /\ EgFrame

\* Wait, called after the last Go: g.wg.Wait(); return g.err
EgWait ==
    /\ eg.pc = "launch"
    /\ \A i \in 1..Len(eg.fn) : eg.fn[i].pc # "new"
    /\ eg.wg = 0
    /\ eg' = [eg EXCEPT !.pc = "returned", !.ret = eg.err]
    /\ EgFrame

EgNext ==
    \/ \E i \in 1..MaxUrls : EgGo(i)
    \/ \E i \in 1..MaxUrls, out \in {"ok", "err"} : EgReturn(i, out)
    \/ \E i \in 1..MaxUrls : EgRecord(i)
    \/ \E i \in 1..MaxUrls : EgDone(i)
    \/ EgWait

SpecErrGroup == EgInit /\ [][EgNext]_vars

\* C32: Wait returns only after every function started with Go has
\* finished; it returns nil exactly when none of them returned an error, and
\* otherwise the first error recorded, which a later failing function never
\* overwrites.
C32_WaitFirstError ==
    /\ eg.err = IF eg.order = <<>> THEN 0 ELSE Head(eg.order)
    /\ eg.pc = "returned" =>
          /\ \A i \in 1..Len(eg.fn) : eg.fn[i].pc = "done"
          /\ eg.ret = 0 <=> \A i \in 1..Len(eg.fn) : eg.fn[i].out # "err"
          /\ eg.order # <<>> => eg.ret = Head(eg.order)

\* Wait has returned the error of the last function started, which failed
\* before an earlier one did
C32_Witness ==
    /\ eg.pc = "returned"
    /\ Len(eg.fn) = MaxUrls
    /\ Len(eg.order) >= 2
    /\ eg.ret = MaxUrls
    /\ \E i \in 1..Len(eg.fn) : eg.fn[i].out = "ok"

-----------------------------------------------------------------------------
(* The saveFeed goroutines of the App *)

\* C36: every article of a successfully fetched feed is eventually added to
\* the Store by its saveFeed goroutine, which then terminates.  A run
\* refutes it when the process has ended with articles still on the channel
\* of a saveFeed goroutine: so the process never ends while a saveFeed
\* goroutine has an article left to add.
C36_ArticlesSaved ==
    Crashed => \A k \in DOMAIN saves : saves[k] = <<>>

====
